---- MODULE Spec2Model ----
(***************************************************************************)
(* Model of the onset detector of schollz/goaubio-onset.                   *)
(*                                                                         *)
(* Number representation (TLC has integers only):                          *)
(*   - sample counts (TotalFrames, LastOnset, Minioi, Delay, HopSize) are  *)
(*     naturals, as the Go uint fields; the bounded runs stay far below    *)
(*     the uint range, so no wrap-around occurs;                           *)
(*   - a float64 onset position is an exact fraction [n |-> .., d |-> ..]  *)
(*     with d >= 0; d = 0 is a non-finite float (n > 0: +Inf, n < 0: -Inf, *)
(*     n = 0: NaN);                                                        *)
(*   - the peak-picking threshold is kept in thousandths, the compression  *)
(*     lambda in hundredths, the silence level in whole dB;                *)
(*   - an input sample v stands for the amplitude v / 1000.                *)
(* The spectral front end (phase vocoder, descriptor, smoothing filter) is *)
(* floating-point signal processing; the value it hands to the peak window *)
(* on each hop (PeakPicker.Thresholded) is an input of the Do action.      *)
(***************************************************************************)
EXTENDS Integers, Sequences, FiniteSets

VARIABLES
    Samplerate,         \* Onset.Samplerate
    HopSize,            \* Onset.HopSize
    Silence,            \* Onset.Silence (dB)
    Minioi,             \* Onset.Minioi (samples)
    Delay,              \* Onset.Delay (samples)
    TotalFrames,        \* Onset.TotalFrames
    LastOnset,          \* Onset.LastOnset
    ApplyCompression,   \* Onset.ApplyCompression
    LambdaCompression,  \* Onset.LambdaCompression (hundredths)
    ApplyAWhitening,    \* Onset.ApplyAWhitening
    PpThreshold,        \* Onset.Pp.Threshold (thousandths)
    OnsetPeek,          \* Onset.Pp.OnsetPeek, the 3-wide peak window
    Fftgrain,           \* Onset.Fftgrain: what was applied to the last frame
    onset,              \* the caller's output buffer, onset.Data[0]
    nCalls,             \* history: Do calls since construction or Reset
    nOnsets,            \* history: onsets accepted since construction or Reset
    nSets,              \* history: setter calls since construction
    lastCall,           \* history: the last operation and its argument
    medIn,              \* FvecMedian / MedianSimple: the input vector
    medOut,             \* FvecMedian / MedianSimple: the two results
    OnsetType,          \* Onset.Od.OnsetType
    modeArg,            \* history: the mode string NewOnset was called with
    pkIn,               \* FvecPeakPick / FvecQuadraticPeakPos: vector and position
    pkOut,              \* FvecPeakPick / FvecQuadraticPeakPos: the result
    filter,             \* a Filter: Order, A, B, X, Y (and whether it panicked)
    fin,                \* the Fvec handed to the filter, and its first contents
    heap,               \* two detectors: the allocated objects by address
    inst,               \* two detectors: the address of each caller's *Onset
    pairOut,            \* two detectors: each caller's output buffer
    alone,              \* history: each detector's calls replayed on its own
    actor,              \* history: the caller of the last operation
    picker,             \* a PeakPicker with its novelty window and smoothing
    whitening,          \* a SpectralWhitening, the frame it was applied to last,
                        \* and (history) the same calls without any SetFloor
    desc,               \* a Specdesc, the frame it was applied to last, what
                        \* the call added up, and (history) the Specdesc before
    medRun              \* a call of FvecMedian in progress: its position, its
                        \* locals, the arrays, and (history) the input as given

onsetVars == <<Samplerate, HopSize, Silence, Minioi, Delay, TotalFrames,
               LastOnset, ApplyCompression, LambdaCompression,
               ApplyAWhitening, PpThreshold, OnsetPeek, Fftgrain, onset,
               nCalls, nOnsets, nSets, lastCall, OnsetType, modeArg>>
medVars == <<medIn, medOut>>
pkVars == <<pkIn, pkOut>>
filterVars == <<filter, fin>>
pairVars == <<heap, inst, pairOut, alone, actor>>
compVars == <<pkVars, filterVars, pairVars, picker, whitening, desc, medRun>>
vars == <<Samplerate, HopSize, Silence, Minioi, Delay, TotalFrames,
          LastOnset, ApplyCompression, LambdaCompression, ApplyAWhitening,
          PpThreshold, OnsetPeek, Fftgrain, onset, nCalls, nOnsets, nSets,
          lastCall,
          medIn, medOut, OnsetType, modeArg, pkIn, pkOut, filter, fin,
          heap, inst, pairOut, alone, actor, picker, whitening, desc, medRun>>

(***************************************************************************)
(* Bounds                                                                  *)
(***************************************************************************)
MaxCalls == 5
MaxSets == 1
MaxThresholded == 2
MaxMedLen == 6
MaxMedVal == 2
ToneHops == 20
MaxPeakLen == 4
MaxPeakVal == 2
ModeCalls == 1
MaxPairOps == 2
MaxOrder == 2
MaxPickerCalls == 7
MaxWhiteningOps == 3
MaxDescOps == 3
MaxRunLen == 6
MaxRunVal == 2
MaxFilterLen == 3
MaxFilterOps == 2

\* Input hops (samples in thousandths): all zero (-90 dB by the code's
\* convention), quiet (0.001 and 0.003: about -53 dB) and loud (0.5 and
\* 0.25: about -8 dB).
Inputs == {<<0, 0>>, <<1, 3>>, <<500, 250>>}
ThresholdedVals == 0..MaxThresholded

(***************************************************************************)
(* Fractions                                                               *)
(***************************************************************************)
Frac(n, d) == [n |-> n, d |-> d]
Zero == Frac(0, 1)
IsPositive(r) == r.n > 0
IsZero(r) == r.n = 0 /\ r.d > 0
FracEq(r, s) == r.d > 0 /\ s.d > 0 /\ r.n * s.d = s.n * r.d

\* math.Floor(x + 0.5) for the fraction n / d, d > 0
Round(n, d) == (2 * n + d) \div (2 * d)

Max(a, b) == IF a > b THEN a ELSE b

RECURSIVE Pow10(_)
Pow10(k) == IF k <= 0 THEN 1 ELSE 10 * Pow10(k - 1)

RECURSIVE SumSq(_, _)
SumSq(f, i) == IF i = 0 THEN 0 ELSE f[i] * f[i] + SumSq(f, i - 1)

(***************************************************************************)
(* fvec.go, mathutils: silence detection                                   *)
(***************************************************************************)
\* LocalEnergyDB(f) < threshold, for a threshold that is a multiple of 10 dB.
\* The code computes db = 10 * log10(energy / Length) when energy > 0 and
\* -90 otherwise; with samples in thousandths, energy = SumSq / 10^6, and
\* 10 * log10(e) < t  <=>  e < 10^(t/10), compared here without the logarithm
\* (e * 10^m < n is written e <= (n - 1) \div 10^m to keep the numbers small).
LocalEnergyDBBelow(f, threshold) ==
    LET e == SumSq(f, Len(f))
        k == 6 + threshold \div 10
    IN  IF e > 0
        THEN IF k >= 0 THEN e < Len(f) * Pow10(k)
                       ELSE e <= (Len(f) - 1) \div Pow10(-k)
        ELSE -90 < threshold

SilenceDetection(input, threshold) == LocalEnergyDBBelow(input, threshold)

(***************************************************************************)
(* Peak picking on the 3-wide window (positions are 0-based as in the Go   *)
(* code; the TLA+ sequence holds position pos at index pos + 1)            *)
(***************************************************************************)
\* A plausible slip: a plateau to the right accepted as a peak.
FvecPeakPickNonStrict(v, pos) ==
    IF pos = 0 \/ pos >= Len(v) - 1
    THEN FALSE
    ELSE /\ v[pos + 1] > v[pos]
         /\ v[pos + 1] >= v[pos + 2]
         /\ v[pos + 1] > 0

FvecPeakPick(v, pos) ==
    IF pos = 0 \/ pos >= Len(v) - 1
    THEN FALSE
    ELSE /\ v[pos + 1] > v[pos]
         /\ v[pos + 1] > v[pos + 2]
         /\ v[pos + 1] > 0

\* pos + 0.5 * (s0 - s2) / (s0 - 2 * s1 + s2) as a fraction with d >= 0
QuadraticInterp(pos, s0, s1, s2) ==
    LET den == s0 - 2 * s1 + s2
        num == s0 - s2
    IN  IF den > 0 THEN Frac(2 * pos * den + num, 2 * den)
        ELSE IF den < 0 THEN Frac(-(2 * pos * den + num), -(2 * den))
        ELSE Frac(num, 0)

\* A plausible slip: the offset from the centre alone, without the position.
QuadraticOffsetOnly(x, pos) ==
    IF pos = 0 \/ pos = Len(x) - 1
    THEN Frac(pos, 1)
    ELSE QuadraticInterp(0, x[pos], x[pos + 1], x[pos + 2])

FvecQuadraticPeakPos(x, pos) ==
    IF pos = 0 \/ pos = Len(x) - 1
    THEN Frac(pos, 1)
    ELSE LET x0 == IF pos >= 1 THEN pos - 1 ELSE pos
             x2 == IF pos + 1 >= Len(x) THEN pos ELSE pos + 1
         IN  IF x0 = pos
             THEN (IF x[pos + 1] <= x[x2 + 1] THEN Frac(pos, 1) ELSE Frac(x2, 1))
             ELSE IF x2 = pos
             THEN (IF x[pos + 1] <= x[x0 + 1] THEN Frac(pos, 1) ELSE Frac(x0, 1))
             ELSE QuadraticInterp(pos, x[x0 + 1], x[pos + 1], x[x2 + 1])

\* PeakPicker.Do from the point where the thresholded value is known:
\* shift the peek window, append, test the centre.
PeekShift(peek, thresholded) == <<peek[2], peek[3], thresholded>>

PeakPickerOut(peek) ==
    IF FvecPeakPick(peek, 1) THEN FvecQuadraticPeakPos(peek, 1) ELSE Zero

(***************************************************************************)
(* Onset.Do: the acceptance state machine                                  *)
(***************************************************************************)
\* A plausible slip: the comparison the wrong way round.
NotDoubledInverted(last, minioi, newOnset) == newOnset < last + minioi

\* "Check if last onset time was more than minioi ago"
NotDoubled(last, minioi, newOnset) == last + minioi < newOnset

\* A plausible slip: a doubled onset is zeroed in the output but still marked.
PeakBranchMarksDoubled(isonset, silent, tf, last, minioi, delay, hop) ==
    IF silent
    THEN [isonset |-> Zero, last |-> last]
    ELSE LET newOnset == tf + Round(isonset.n * hop, isonset.d)
         IN  IF NotDoubled(last, minioi, newOnset)
             THEN IF last > 0 /\ delay > newOnset
                  THEN [isonset |-> Zero, last |-> last]
                  ELSE [isonset |-> isonset, last |-> Max(delay, newOnset)]
             ELSE [isonset |-> Zero, last |-> Max(delay, newOnset)]

\* A plausible slip: the accepted candidate stored without the delay floor.
PeakBranchKeepsCandidate(isonset, silent, tf, last, minioi, delay, hop) ==
    IF silent
    THEN [isonset |-> Zero, last |-> last]
    ELSE LET newOnset == tf + Round(isonset.n * hop, isonset.d)
         IN  IF NotDoubled(last, minioi, newOnset)
             THEN IF last > 0 /\ delay > newOnset
                  THEN [isonset |-> Zero, last |-> last]
                  ELSE [isonset |-> isonset, last |-> newOnset]
             ELSE [isonset |-> Zero, last |-> last]

\* A plausible slip: a candidate before the start delay rejected on the first
\* onset as well (the start-of-file test without LastOnset > 0).
PeakBranchRejectsBeforeDelay(isonset, silent, tf, last, minioi, delay, hop) ==
    IF silent
    THEN [isonset |-> Zero, last |-> last]
    ELSE LET newOnset == tf + Round(isonset.n * hop, isonset.d)
         IN  IF NotDoubled(last, minioi, newOnset)
             THEN IF delay > newOnset
                  THEN [isonset |-> Zero, last |-> last]
                  ELSE [isonset |-> isonset, last |-> Max(delay, newOnset)]
             ELSE [isonset |-> Zero, last |-> last]

\* The branch taken when the peak picker reported a position > 0.
PeakBranch(isonset, silent, tf, last, minioi, delay, hop) ==
    IF silent
    THEN [isonset |-> Zero, last |-> last]
    ELSE LET newOnset == tf + Round(isonset.n * hop, isonset.d)
         IN  IF NotDoubled(last, minioi, newOnset)
             THEN IF last > 0 /\ delay > newOnset
                  THEN [isonset |-> Zero, last |-> last]
                  ELSE [isonset |-> isonset, last |-> Max(delay, newOnset)]
             ELSE [isonset |-> Zero, last |-> last]

\* A plausible slip: the forced start onset without the silence test.
StartBranchNoSilence(isonset, silent, tf, last, minioi, delay, hop) ==
    IF tf <= delay /\ (tf = 0 \/ last + minioi < tf)
    THEN [isonset |-> Frac(delay, hop), last |-> tf + delay]
    ELSE [isonset |-> isonset, last |-> last]

\* A plausible slip: the forced start onset without the interval test.
StartBranchNoMinioi(isonset, silent, tf, last, minioi, delay, hop) ==
    IF tf <= delay /\ ~silent
    THEN [isonset |-> Frac(delay, hop), last |-> tf + delay]
    ELSE [isonset |-> isonset, last |-> last]

\* A plausible slip: the forced start onset without the first-hop case.
StartBranchNoFirstHop(isonset, silent, tf, last, minioi, delay, hop) ==
    IF tf <= delay /\ ~silent /\ last + minioi < tf
    THEN [isonset |-> Frac(delay, hop), last |-> tf + delay]
    ELSE [isonset |-> isonset, last |-> last]

\* A plausible slip: the start window closed one hop early (< for <=).
StartBranchStrict(isonset, silent, tf, last, minioi, delay, hop) ==
    IF tf < delay /\ ~silent /\ (tf = 0 \/ last + minioi < tf)
    THEN [isonset |-> Frac(delay, hop), last |-> tf + delay]
    ELSE [isonset |-> isonset, last |-> last]

\* The branch taken otherwise: "we are at the beginning of the file".
StartBranch(isonset, silent, tf, last, minioi, delay, hop) ==
    IF tf <= delay
    THEN IF ~silent
         THEN LET newOnset == tf
              IN  IF tf = 0 \/ last + minioi < newOnset
                  THEN [isonset |-> Frac(delay, hop), last |-> tf + delay]
                  ELSE [isonset |-> isonset, last |-> last]
         ELSE [isonset |-> isonset, last |-> last]
    ELSE [isonset |-> isonset, last |-> last]

\* A plausible slip: counting hops instead of samples.
AdvanceByOne(tf, hop) == tf + 1

\* o.TotalFrames += o.HopSize
Advance(tf, hop) == tf + hop

\* Cvec.LogMag on the frame record: applied only for lambda > 0.
LogMag(grain, lambda) ==
    IF lambda > 0 THEN [grain EXCEPT !.logmag = lambda] ELSE grain

\* The frame as the phase vocoder leaves it, then whitening and compression.
FrameOf(whiten, compress, lambda) ==
    LET g0 == [whitened |-> FALSE, logmag |-> 0]
        g1 == IF whiten THEN [g0 EXCEPT !.whitened = TRUE] ELSE g0
    IN  IF compress THEN LogMag(g1, lambda) ELSE g1

Do(input, thresholded) ==
    LET peek == PeekShift(OnsetPeek, thresholded)
        pp == PeakPickerOut(peek)
        silent == SilenceDetection(input, Silence)
        r == IF IsPositive(pp)
             THEN PeakBranch(pp, silent, TotalFrames, LastOnset, Minioi, Delay, HopSize)
             ELSE StartBranch(pp, silent, TotalFrames, LastOnset, Minioi, Delay, HopSize)
    IN  /\ Fftgrain' = FrameOf(ApplyAWhitening, ApplyCompression, LambdaCompression)
        /\ OnsetPeek' = peek
        /\ onset' = r.isonset
        /\ LastOnset' = r.last
        /\ TotalFrames' = Advance(TotalFrames, HopSize)
        /\ nCalls' = nCalls + 1
        /\ nOnsets' = IF IsPositive(r.isonset) /\ nOnsets < 2 THEN nOnsets + 1 ELSE nOnsets
        /\ lastCall' = <<"Do", silent>>
        /\ UNCHANGED <<Samplerate, HopSize, Silence, Minioi, Delay, ApplyCompression,
                       LambdaCompression, ApplyAWhitening, PpThreshold, nSets>>
        /\ UNCHANGED <<OnsetType, modeArg, medVars, compVars>>

GetLast == IF Delay > LastOnset THEN 0 ELSE LastOnset - Delay

GetCompression == IF ApplyCompression THEN LambdaCompression ELSE 0

(***************************************************************************)
(* Setters and Reset                                                       *)
(***************************************************************************)
SilenceArgs == {-100, -50}
MinioiArgs == {1}
DelayArgs == {0, 8}
ThresholdArgs == {500}
LambdaArgs == {-100, 0, 2}

Setter(name, arg) ==
    /\ nSets < MaxSets
    /\ nSets' = nSets + 1
    /\ lastCall' = <<name, arg>>
    /\ UNCHANGED <<Samplerate, HopSize, TotalFrames, LastOnset, OnsetPeek,
                   Fftgrain, onset, nCalls, nOnsets>>
    /\ UNCHANGED <<OnsetType, modeArg, medVars, compVars>>

SetAWhitening(enable) ==
    /\ Setter("SetAWhitening", enable)
    /\ ApplyAWhitening' = enable
    /\ UNCHANGED <<Silence, Minioi, Delay, ApplyCompression, LambdaCompression,
                   PpThreshold>>

\* A plausible slip: the guard on negative values left out.
SetCompressionUnguarded(lambda) ==
    /\ Setter("SetCompression", lambda)
    /\ LambdaCompression' = lambda
    /\ ApplyCompression' = (lambda > 0)
    /\ UNCHANGED <<Silence, Minioi, Delay, ApplyAWhitening, PpThreshold>>

SetCompression(lambda) ==
    /\ Setter("SetCompression", lambda)
    /\ IF lambda < 0
       THEN UNCHANGED <<LambdaCompression, ApplyCompression>>
       ELSE /\ LambdaCompression' = lambda
            /\ ApplyCompression' = (lambda > 0)
    /\ UNCHANGED <<Silence, Minioi, Delay, ApplyAWhitening, PpThreshold>>

SetSilence(silence) ==
    /\ Setter("SetSilence", silence)
    /\ Silence' = silence
    /\ UNCHANGED <<Minioi, Delay, ApplyCompression, LambdaCompression,
                   ApplyAWhitening, PpThreshold>>

SetThreshold(threshold) ==
    /\ Setter("SetThreshold", threshold)
    /\ PpThreshold' = threshold
    /\ UNCHANGED <<Silence, Minioi, Delay, ApplyCompression, LambdaCompression,
                   ApplyAWhitening>>

SetMinioi(minioi) ==
    /\ Setter("SetMinioi", minioi)
    /\ Minioi' = minioi
    /\ UNCHANGED <<Silence, Delay, ApplyCompression, LambdaCompression,
                   ApplyAWhitening, PpThreshold>>

SetDelay(delay) ==
    /\ Setter("SetDelay", delay)
    /\ Delay' = delay
    /\ UNCHANGED <<Silence, Minioi, ApplyCompression, LambdaCompression,
                   ApplyAWhitening, PpThreshold>>

\* A plausible slip: Reset also putting the start delay back to its default.
ResetWithDelay ==
    /\ LastOnset' = 0
    /\ TotalFrames' = 0
    /\ Delay' = (43 * HopSize) \div 10
    /\ nCalls' = 0
    /\ nOnsets' = 0
    /\ lastCall' = <<"Reset", 0>>
    /\ UNCHANGED <<Samplerate, HopSize, Silence, Minioi, ApplyCompression,
                   LambdaCompression, ApplyAWhitening, PpThreshold, OnsetPeek,
                   Fftgrain, onset, nSets>>
    /\ UNCHANGED <<OnsetType, modeArg, medVars, compVars>>

Reset ==
    /\ LastOnset' = 0
    /\ TotalFrames' = 0
    /\ nCalls' = 0
    /\ nOnsets' = 0
    /\ lastCall' = <<"Reset", 0>>
    /\ UNCHANGED <<Samplerate, HopSize, Silence, Minioi, Delay, ApplyCompression,
                   LambdaCompression, ApplyAWhitening, PpThreshold, OnsetPeek,
                   Fftgrain, onset, nSets>>
    /\ UNCHANGED <<OnsetType, modeArg, medVars, compVars>>

(***************************************************************************)
(* Construction                                                            *)
(***************************************************************************)
\* SetMinioiMs(ms): SetMinioi(uint(Round(ms / 1000 * samplerate)))
MinioiOfMs(ms, samplerate) == Round(ms * samplerate, 1000)

\* The compression setter on a parameter record (lambda in hundredths).
WithCompression(c, lambda) ==
    IF lambda < 0 THEN c
    ELSE [c EXCEPT !.lambda = lambda, !.compress = (lambda > 0)]

\* SetDefaultParameters: the common defaults, then the per-method ones.
\* c0 holds the compression fields as they are before the call.
\* mode is the lower-cased mode string.
SetDefaultParameters(mode, hop, samplerate, c0) ==
    LET d == WithCompression(
                 [threshold |-> 300,
                  delay |-> (43 * hop) \div 10,
                  minioi |-> MinioiOfMs(50, samplerate),
                  silence |-> -70,
                  whiten |-> FALSE,
                  lambda |-> c0.lambda,
                  compress |-> c0.compress], 0)
    IN  CASE mode = "energy" -> d
          [] mode \in {"hfc", "default"} ->
                WithCompression([d EXCEPT !.threshold = 58], 100)
          [] mode \in {"complexdomain", "complex"} ->
                WithCompression([d EXCEPT !.delay = (46 * hop) \div 10,
                                          !.threshold = 150,
                                          !.whiten = TRUE], 100)
          [] mode = "phase" ->
                WithCompression([d EXCEPT !.whiten = FALSE], 0)
          [] mode = "wphase" -> d
          [] mode = "mkl" ->
                WithCompression([d EXCEPT !.threshold = 50, !.whiten = TRUE], 2)
          [] mode = "kl" ->
                WithCompression([d EXCEPT !.threshold = 350, !.whiten = TRUE], 2)
          [] mode = "specflux" ->
                WithCompression([d EXCEPT !.threshold = 180, !.whiten = TRUE], 1000)
          [] mode = "specdiff" -> d
          [] mode = "old_default" ->
                WithCompression([d EXCEPT !.threshold = 300,
                                          !.minioi = MinioiOfMs(20, samplerate)], 0)
          [] OTHER -> d

\* A Go string is a sequence of one-character strings here, so that the
\* case conversion works character by character.
UpperCase == <<"A", "B", "C", "D", "E", "F", "G", "H", "I", "J", "K", "L", "M",
               "N", "O", "P", "Q", "R", "S", "T", "U", "V", "W", "X", "Y", "Z">>
LowerCase == <<"a", "b", "c", "d", "e", "f", "g", "h", "i", "j", "k", "l", "m",
               "n", "o", "p", "q", "r", "s", "t", "u", "v", "w", "x", "y", "z">>

ToLowerChar(c) ==
    IF \E i \in 1..Len(UpperCase) : UpperCase[i] = c
    THEN LowerCase[CHOOSE i \in 1..Len(UpperCase) : UpperCase[i] = c]
    ELSE c

\* strings.ToLower
ToLower(str) == [i \in 1..Len(str) |-> ToLowerChar(str[i])]

\* The characters put together again, to compare with the case labels.
RECURSIVE Join(_)
Join(str) == IF str = <<>> THEN "" ELSE str[1] \o Join(Tail(str))

ToUpperChar(c) ==
    IF \E i \in 1..Len(LowerCase) : LowerCase[i] = c
    THEN UpperCase[CHOOSE i \in 1..Len(LowerCase) : LowerCase[i] = c]
    ELSE c

\* The spellings a caller may use for one name: lower case, upper case and
\* capitalised.
Casings(name) ==
    {name,
     [i \in 1..Len(name) |-> ToUpperChar(name[i])],
     [i \in 1..Len(name) |-> IF i = 1 THEN ToUpperChar(name[i]) ELSE name[i]]}

\* The case labels of NewSpecdesc, and old_default, which only
\* SetDefaultParameters knows.
Mode ==
    [energy |-> <<"e", "n", "e", "r", "g", "y">>,
     specdiff |-> <<"s", "p", "e", "c", "d", "i", "f", "f">>,
     hfc |-> <<"h", "f", "c">>,
     default |-> <<"d", "e", "f", "a", "u", "l", "t">>,
     complexdomain |-> <<"c", "o", "m", "p", "l", "e", "x", "d", "o", "m", "a", "i", "n">>,
     complex |-> <<"c", "o", "m", "p", "l", "e", "x">>,
     phase |-> <<"p", "h", "a", "s", "e">>,
     wphase |-> <<"w", "p", "h", "a", "s", "e">>,
     kl |-> <<"k", "l">>,
     mkl |-> <<"m", "k", "l">>,
     specflux |-> <<"s", "p", "e", "c", "f", "l", "u", "x">>,
     old_default |-> <<"o", "l", "d", "_", "d", "e", "f", "a", "u", "l", "t">>]

\* Strings that are no case label of NewSpecdesc: the empty string, a foreign
\* word, a label with a trailing character, a prefix of a label, and
\* old_default.
UnrecognizedModes ==
    {<<>>, <<"f", "o", "o">>, <<"h", "f", "c", " ">>, <<"H", "F">>, Mode.old_default}

ModeStrings ==
    UNION {Casings(Mode[k]) : k \in DOMAIN Mode \ {"old_default"}} \cup UnrecognizedModes

\* A plausible slip: the switch on the mode string as given.
NewSpecdescCaseSensitive(onsetMode) ==
    LET mode == Join(onsetMode)
    IN  CASE mode = "energy" -> "OnsetEnergy"
          [] mode = "specdiff" -> "OnsetSpecdiff"
          [] mode \in {"hfc", "default"} -> "OnsetHFC"
          [] mode \in {"complexdomain", "complex"} -> "OnsetComplex"
          [] mode = "phase" -> "OnsetPhase"
          [] mode = "wphase" -> "OnsetWPhase"
          [] mode = "kl" -> "OnsetKL"
          [] mode = "mkl" -> "OnsetMKL"
          [] mode = "specflux" -> "OnsetSpecflux"
          [] OTHER -> "OnsetHFC"

\* NewSpecdesc: the OnsetType selected for a mode string.
NewSpecdesc(onsetMode) ==
    LET mode == Join(ToLower(onsetMode))
    IN  CASE mode = "energy" -> "OnsetEnergy"
          [] mode = "specdiff" -> "OnsetSpecdiff"
          [] mode \in {"hfc", "default"} -> "OnsetHFC"
          [] mode \in {"complexdomain", "complex"} -> "OnsetComplex"
          [] mode = "phase" -> "OnsetPhase"
          [] mode = "wphase" -> "OnsetWPhase"
          [] mode = "kl" -> "OnsetKL"
          [] mode = "mkl" -> "OnsetMKL"
          [] mode = "specflux" -> "OnsetSpecflux"
          [] OTHER -> "OnsetHFC"

\* NewOnset(onsetMode, bufSize, hopSize, samplerate)
NewOnset(onsetMode, bufSize, hopSize, samplerate) ==
    LET c == SetDefaultParameters(Join(ToLower(onsetMode)), hopSize, samplerate,
                                  [lambda |-> 0, compress |-> FALSE])
    IN  /\ OnsetType = NewSpecdesc(onsetMode)
        /\ modeArg = onsetMode
        /\ Samplerate = samplerate
        /\ HopSize = hopSize
        /\ Silence = c.silence
        /\ Minioi = c.minioi
        /\ Delay = c.delay
        /\ ApplyCompression = c.compress
        /\ LambdaCompression = c.lambda
        /\ ApplyAWhitening = c.whiten
        /\ PpThreshold = c.threshold
        /\ OnsetPeek = <<0, 0, 0>>
        /\ Fftgrain = [whitened |-> FALSE, logmag |-> 0]
        /\ onset = Zero
        /\ TotalFrames = 0
        /\ LastOnset = 0
        /\ nCalls = 0
        /\ nOnsets = 0
        /\ nSets = 0
        /\ lastCall = <<"NewOnset", 0>>

(***************************************************************************)
(* Median selection (FvecMedian) and the sort-based MedianSimple           *)
(***************************************************************************)
\* Indices are 0-based as in the Go code; arr[i] of the code is a[i + 1].
Swap(a, i, j) == [a EXCEPT ![i + 1] = a[j + 1], ![j + 1] = a[i + 1]]

SwapIfGreater(a, i, j) == IF a[i + 1] > a[j + 1] THEN Swap(a, i, j) ELSE a

\* for ll++; arr[low] > arr[ll]; ll++ {}  -- ll is the index after the first
\* increment; the result is Len(a) when the scan leaves the array (a panic).
RECURSIVE ScanUp(_, _, _)
ScanUp(a, low, ll) ==
    IF ll >= Len(a) THEN Len(a)
    ELSE IF a[low + 1] > a[ll + 1] THEN ScanUp(a, low, ll + 1)
    ELSE ll

\* for hh--; arr[hh] > arr[low]; hh-- {}  -- the result is -1 when the scan
\* leaves the array (a panic).
RECURSIVE ScanDown(_, _, _)
ScanDown(a, low, hh) ==
    IF hh < 0 THEN -1
    ELSE IF a[hh + 1] > a[low + 1] THEN ScanDown(a, low, hh - 1)
    ELSE hh

\* The inner partition loop: arr, ll and hh when it breaks.
RECURSIVE Partition(_, _, _, _)
Partition(a, low, ll, hh) ==
    LET l2 == ScanUp(a, low, ll + 1)
        h2 == IF l2 >= Len(a) THEN hh ELSE ScanDown(a, low, hh - 1)
    IN  IF l2 >= Len(a) \/ h2 < 0
        THEN [arr |-> a, ll |-> l2, hh |-> h2, panic |-> TRUE]
        ELSE IF h2 < l2
        THEN [arr |-> a, ll |-> l2, hh |-> h2, panic |-> FALSE]
        ELSE Partition(Swap(a, l2, h2), low, l2, h2)

\* The outer loop of FvecMedian.
RECURSIVE Select(_, _, _, _)
Select(a, low, high, median) ==
    IF high <= low
    THEN [val |-> a[median + 1], panic |-> FALSE]
    ELSE IF high = low + 1
    THEN [val |-> SwapIfGreater(a, low, high)[median + 1], panic |-> FALSE]
    ELSE LET middle == (low + high) \div 2
             a1 == SwapIfGreater(a, middle, high)
             a2 == SwapIfGreater(a1, low, high)
             a3 == SwapIfGreater(a2, middle, low)
             a4 == Swap(a3, middle, low + 1)
             p == Partition(a4, low, low + 1, high)
             a5 == Swap(p.arr, low, p.hh)
         IN  IF p.panic
             THEN [val |-> 0, panic |-> TRUE]
             ELSE Select(a5,
                         IF p.hh <= median THEN p.ll ELSE low,
                         IF p.hh >= median THEN p.hh - 1 ELSE high,
                         median)

FvecMedian(input) ==
    IF Len(input) = 0
    THEN [val |-> 0, panic |-> FALSE]
    ELSE Select(input, 0, Len(input) - 1, (0 + Len(input) - 1) \div 2)

\* sort.Float64s: the ascending rearrangement, here by insertion.
RECURSIVE Insert(_, _)
Insert(sorted, x) ==
    IF sorted = <<>> THEN <<x>>
    ELSE IF x <= Head(sorted) THEN <<x>> \o sorted
    ELSE <<Head(sorted)>> \o Insert(Tail(sorted), x)

RECURSIVE Sort(_)
Sort(data) == IF data = <<>> THEN <<>> ELSE Insert(Sort(Tail(data)), Head(data))

\* The result as a fraction: the mean of the two middle values for an even
\* length, the middle value for an odd one.
MedianSimple(data) ==
    IF Len(data) = 0 THEN Zero
    ELSE LET sorted == Sort(data)
             n == Len(sorted)
         IN  IF n % 2 = 0
             THEN Frac(sorted[n \div 2] + sorted[n \div 2 + 1], 2)
             ELSE Frac(sorted[n \div 2 + 1], 1)

\* The sequences of up to n values out of vals.
RECURSIVE SeqsOver(_, _)
SeqsOver(vals, n) ==
    IF n = 0 THEN {<<>>}
    ELSE LET shorter == SeqsOver(vals, n - 1)
         IN  shorter \cup {Append(q, v) : q \in {r \in shorter : Len(r) = n - 1},
                                            v \in vals}

\* Both medians of the drawn vector.
RunMedian ==
    /\ medOut = <<>>
    /\ medOut' = <<FvecMedian(medIn), MedianSimple(medIn)>>
    /\ UNCHANGED medIn
    /\ UNCHANGED <<onsetVars, compVars>>

(***************************************************************************)
(* FvecPeakPick and FvecQuadraticPeakPos on any vector and position        *)
(***************************************************************************)
\* Length - 1 is uint arithmetic: on an empty vector it wraps around to the
\* largest uint, the range test lets every pos > 0 through and the read of
\* onset.Data[pos] is out of range.
FvecPeakPickPanics(v, pos) == Len(v) = 0 /\ pos > 0

\* For pos past the end, x2 == pos and x.Data[pos] is read out of range.
FvecQuadraticPeakPosPanics(x, pos) == pos > 0 /\ pos >= Len(x)

PkNone == [op |-> "none", panic |-> FALSE, pick |-> FALSE, peak |-> Zero]

RunPeakPick ==
    /\ pkOut.op = "none"
    /\ pkOut' = IF FvecPeakPickPanics(pkIn.v, pkIn.pos)
                THEN [PkNone EXCEPT !.op = "FvecPeakPick", !.panic = TRUE]
                ELSE [PkNone EXCEPT !.op = "FvecPeakPick",
                                    !.pick = FvecPeakPick(pkIn.v, pkIn.pos)]
    /\ UNCHANGED <<pkIn, onsetVars, medVars, filterVars, pairVars, picker, whitening, desc, medRun>>

RunQuadraticPeakPos ==
    /\ pkOut.op = "none"
    /\ pkOut' = IF FvecQuadraticPeakPosPanics(pkIn.v, pkIn.pos)
                THEN [PkNone EXCEPT !.op = "FvecQuadraticPeakPos", !.panic = TRUE]
                ELSE [PkNone EXCEPT !.op = "FvecQuadraticPeakPos",
                                    !.peak = FvecQuadraticPeakPos(pkIn.v, pkIn.pos)]
    /\ UNCHANGED <<pkIn, onsetVars, medVars, filterVars, pairVars, picker, whitening, desc, medRun>>

(***************************************************************************)
(* filter.go: the recursive filter                                         *)
(*                                                                         *)
(* Coefficients and samples are fixed-point numbers in thousandths; a sum  *)
(* of products is rounded to the nearest thousandth.  With the identity    *)
(* coefficients of NewFilter the arithmetic is exact.                      *)
(***************************************************************************)
CoefScale == 1000

ZeroSeq(n) == [i \in 1..n |-> 0]

NoFilter ==
    [made |-> FALSE, panic |-> FALSE, ops |-> 0, Order |-> 0,
     A |-> <<>>, B |-> <<>>, X |-> <<>>, Y |-> <<>>]

\* make([]float64, order) four times, then A[0] = B[0] = 1.0: the write to
\* index 0 of an empty slice panics.
NewFilter(order) ==
    IF order = 0
    THEN [NoFilter EXCEPT !.made = TRUE, !.panic = TRUE]
    ELSE [NoFilter EXCEPT
             !.made = TRUE,
             !.Order = order,
             !.A = [i \in 1..order |-> IF i = 1 THEN CoefScale ELSE 0],
             !.B = [i \in 1..order |-> IF i = 1 THEN CoefScale ELSE 0],
             !.X = ZeroSeq(order),
             !.Y = ZeroSeq(order)]

NewBiquadFilter(b0, b1, b2, a1, a2) ==
    [NewFilter(3) EXCEPT !.B = <<b0, b1, b2>>, !.A = <<CoefScale, a1, a2>>]

\* The inner loop of Do: sum over l = 1 .. Order-1 of B[l]*X[l] - A[l]*Y[l]
\* (index l of the code is l + 1 here).
RECURSIVE FilterTaps(_, _, _)
FilterTaps(f, X, l) ==
    IF l >= f.Order THEN 0
    ELSE f.B[l + 1] * X[l + 1] - f.A[l + 1] * f.Y[l + 1] + FilterTaps(f, X, l + 1)

\* One sample through the filter: the new history and the output sample.
FilterSample(f, x) ==
    LET X0 == [f.X EXCEPT ![1] = x]
        y == Round(f.B[1] * x + FilterTaps(f, X0, 1), CoefScale)
        Y0 == [f.Y EXCEPT ![1] = y]
    IN  [f |-> [f EXCEPT !.X = [i \in 1..f.Order |-> IF i = 1 THEN x ELSE X0[i - 1]],
                         !.Y = [i \in 1..f.Order |-> IF i = 1 THEN y ELSE Y0[i - 1]]],
         y |-> y]

\* Filter.Do on the samples from index j on; done holds the outputs so far.
\* With Order = 0 the first write, f.X[0] = in.Data[j], is out of range.
RECURSIVE FilterDoFrom(_, _, _, _)
FilterDoFrom(f, data, j, done) ==
    IF j > Len(data) THEN [f |-> f, data |-> done, panic |-> FALSE]
    ELSE IF f.Order = 0 THEN [f |-> f, data |-> done \o SubSeq(data, j, Len(data)),
                              panic |-> TRUE]
    ELSE LET r == FilterSample(f, data[j])
         IN  FilterDoFrom(r.f, data, j + 1, Append(done, r.y))

FilterDo(f, data) == FilterDoFrom(f, data, 1, <<>>)

\* Filter.Reset: the history zeroed, the coefficients kept
FilterReset(f) == [f EXCEPT !.X = ZeroSeq(Len(f.X)), !.Y = ZeroSeq(Len(f.Y))]

Mirror(data) == [j \in 1..Len(data) |-> data[Len(data) - j + 1]]

\* Filter.DoFiltFilt: forward, reset, mirror, forward again, reset, mirror back
DoFiltFilt(f, data) ==
    LET fwd == FilterDo(f, data)
        bwd == FilterDo(FilterReset(fwd.f), Mirror(fwd.data))
    IN  IF fwd.panic THEN fwd
        ELSE IF bwd.panic THEN [bwd EXCEPT !.data = fwd.data]
        ELSE [f |-> FilterReset(bwd.f), data |-> Mirror(bwd.data), panic |-> FALSE]

\* The picker's smoothing biquad, its coefficients rounded to thousandths.
BiquadArgs == {<<160, 320, 160, 235, 0>>}

\* A call on the filter: possible once it is built, until a panic.
FilterCall ==
    /\ filter.made
    /\ ~filter.panic
    /\ filter.ops < MaxFilterOps

FilterResult(r) ==
    /\ filter' = [r.f EXCEPT !.panic = r.panic, !.ops = filter.ops + 1]
    /\ fin' = [fin EXCEPT !.data = r.data]

CallNewFilter(order) ==
    /\ ~filter.made
    /\ filter' = NewFilter(order)
    /\ UNCHANGED <<fin, onsetVars, medVars, pkVars, pairVars, picker, whitening, desc, medRun>>

CallNewBiquadFilter(c) ==
    /\ ~filter.made
    /\ filter' = NewBiquadFilter(c[1], c[2], c[3], c[4], c[5])
    /\ UNCHANGED <<fin, onsetVars, medVars, pkVars, pairVars, picker, whitening, desc, medRun>>

CallFilterDo ==
    /\ FilterCall
    /\ FilterResult(FilterDo(filter, fin.data))
    /\ UNCHANGED <<onsetVars, medVars, pkVars, pairVars, picker, whitening, desc, medRun>>

CallDoFiltFilt ==
    /\ FilterCall
    /\ FilterResult(DoFiltFilt(filter, fin.data))
    /\ UNCHANGED <<onsetVars, medVars, pkVars, pairVars, picker, whitening, desc, medRun>>

CallFilterReset ==
    /\ FilterCall
    /\ filter' = [FilterReset(filter) EXCEPT !.ops = filter.ops + 1]
    /\ UNCHANGED <<fin, onsetVars, medVars, pkVars, pairVars, picker, whitening, desc, medRun>>

(***************************************************************************)
(* PeakPicker.Do with its smoothing                                        *)
(*                                                                         *)
(* Novelty values are fixed-point numbers in thousandths, like the         *)
(* filter's samples; the threshold is in thousandths as well.              *)
(***************************************************************************)
WinPost == 5
WinPre == 1

NewPeakPicker ==
    [Threshold |-> 100,
     OnsetKeep |-> ZeroSeq(WinPost + WinPre + 1),
     OnsetProc |-> ZeroSeq(WinPost + WinPre + 1),
     OnsetPeek |-> <<0, 0, 0>>,
     Thresholded |-> 0,
     out |-> Zero,
     Biquad |-> LET c == CHOOSE c \in BiquadArgs : TRUE
                IN  NewBiquadFilter(c[1], c[2], c[3], c[4], c[5]),
     calls |-> 0,
     panic |-> FALSE]

\* FvecPush: everything one place to the left, the new element last
FvecPush(v, newElem) == Tail(v) \o <<newElem>>

RECURSIVE Sum(_)
Sum(v) == IF v = <<>> THEN 0 ELSE Head(v) + Sum(Tail(v))

\* FvecMean / Fvec.Mean, as a fraction
FvecMean(input) == IF Len(input) = 0 THEN Zero ELSE Frac(Sum(input), Len(input))

\* PeakPicker.Do: push, copy, smooth the copy, mean and median of the
\* smoothed copy, threshold, shift the peek window, test its centre.
PeakPickerDo(p, novelty) ==
    LET keep == FvecPush(p.OnsetKeep, novelty)
        smoothed == DoFiltFilt(p.Biquad, keep)
        proc == smoothed.data
        mean == FvecMean(proc)
        median == FvecMedian(proc)
        thresholded == proc[WinPost + 1] - median.val
                           - Round(mean.n * p.Threshold, mean.d * 1000)
        peek == PeekShift(p.OnsetPeek, thresholded)
    IN  [p EXCEPT !.OnsetKeep = keep,
                  !.OnsetProc = proc,
                  !.Biquad = smoothed.f,
                  !.Thresholded = thresholded,
                  !.OnsetPeek = peek,
                  !.out = PeakPickerOut(peek),
                  !.calls = @ + 1,
                  !.panic = median.panic \/ smoothed.panic]

CallPeakPickerDo(novelty) ==
    /\ picker.calls < MaxPickerCalls
    /\ ~picker.panic
    /\ picker' = PeakPickerDo(picker, novelty)
    /\ UNCHANGED <<onsetVars, medVars, pkVars, filterVars, pairVars, whitening, desc, medRun>>

\* PeakPicker.SetThreshold
CallPeakPickerSetThreshold(threshold) ==
    /\ picker.Threshold # threshold
    /\ picker' = [picker EXCEPT !.Threshold = threshold]
    /\ UNCHANGED <<onsetVars, medVars, pkVars, filterVars, pairVars, whitening, desc, medRun>>

(***************************************************************************)
(* awhitening.go: adaptive spectral whitening                              *)
(*                                                                         *)
(* Magnitudes, peaks and the floor are fixed-point numbers in units of     *)
(* 1e-4 (the default floor is 1 unit); RDecay is in thousandths.  The      *)
(* whitened magnitude is the exact fraction magnitude / peak.  The object  *)
(* is built for two bins and a hop of one second (HopSize = Samplerate).   *)
(***************************************************************************)
\* RDecay = 0.001 ^ ((HopSize / Samplerate) / relaxTime) for HopSize =
\* Samplerate, in thousandths: 0.001^(1/250) = 0.973 (rounded),
\* 0.001^(1/3) = 0.1, 0.001^1 = 0.001.
SetRelaxTime(s, relaxTime) ==
    [s EXCEPT !.RelaxTime = relaxTime,
              !.RDecay = CASE relaxTime = 250 -> 973
                           [] relaxTime = 3 -> 100
                           [] relaxTime = 1 -> 1]

\* The peak tracker after one Do: max(Norm[i], max(RDecay * peak[i], floor))
WhitenedPeaks(peaks, rdecay, floor, norm) ==
    [i \in 1..Len(peaks) |->
        Max(norm[i], Max(Round(rdecay * peaks[i], 1000), floor))]

\* The frame after one Do: Norm[i] / peak[i] where the new peak is > 0
WhitenedNorm(newPeaks, norm) ==
    [i \in 1..Len(newPeaks) |->
        IF newPeaks[i] > 0 THEN Frac(norm[i], newPeaks[i]) ELSE Frac(norm[i], 10000)]

\* A plausible slip: Do clamping at the floor the peaks were last reset to.
WhiteningDoFloorAtReset(s, norm) ==
    LET peaks == WhitenedPeaks(s.PeakValues, s.RDecay, s.resetFloor, norm)
    IN  [s EXCEPT !.PeakValues = peaks, !.Norm = WhitenedNorm(peaks, norm)]

\* SpectralWhitening.Do on a frame with magnitudes norm
WhiteningDo(s, norm) ==
    LET peaks == WhitenedPeaks(s.PeakValues, s.RDecay, s.Floor, norm)
    IN  [s EXCEPT !.PeakValues = peaks, !.Norm = WhitenedNorm(peaks, norm)]

WhiteningSetFloor(s, floor) == [s EXCEPT !.Floor = floor]

WhiteningReset(s) ==
    [s EXCEPT !.PeakValues = [i \in 1..Len(s.PeakValues) |-> s.Floor]]

\* NewSpectralWhitening(2, hop, hop): the default floor, SetRelaxTime(250),
\* Reset.  resetFloor, without and the fields below them are history: the
\* floor at the last Reset, and the peaks and frame the same sequence of Do
\* calls gives when the floor stays what it was at the last Reset.
NewSpectralWhitening ==
    LET s0 == [Floor |-> 1, RelaxTime |-> 0, RDecay |-> 0,
               PeakValues |-> <<0, 0>>, Norm |-> <<Zero, Zero>>]
        s1 == WhiteningReset(SetRelaxTime(s0, 250))
    IN  [Floor |-> s1.Floor, RelaxTime |-> s1.RelaxTime, RDecay |-> s1.RDecay,
         PeakValues |-> s1.PeakValues, Norm |-> s1.Norm,
         resetFloor |-> s1.Floor,
         withoutPeaks |-> s1.PeakValues,
         withoutNorm |-> s1.Norm,
         input |-> <<0, 0>>,
         last |-> "NewSpectralWhitening",
         ops |-> 0]

WhiteningCall(name) ==
    /\ whitening.ops < MaxWhiteningOps
    /\ whitening'.ops = whitening.ops + 1
    /\ whitening'.last = name
    /\ UNCHANGED <<onsetVars, medVars, pkVars, filterVars, pairVars, picker, desc, medRun>>

CallWhiteningDo(norm) ==
    /\ LET s == WhiteningDo(whitening, norm)
           peaks == WhitenedPeaks(whitening.withoutPeaks, whitening.RDecay,
                                  whitening.resetFloor, norm)
       IN  whitening' = [s EXCEPT !.withoutPeaks = peaks,
                                  !.withoutNorm = WhitenedNorm(peaks, norm),
                                  !.input = norm,
                                  !.last = "Do",
                                  !.ops = @ + 1]
    /\ WhiteningCall("Do")

CallWhiteningSetFloor(floor) ==
    /\ whitening' = [WhiteningSetFloor(whitening, floor) EXCEPT
                         !.last = "SetFloor", !.ops = @ + 1]
    /\ WhiteningCall("SetFloor")

CallWhiteningSetRelaxTime(relaxTime) ==
    /\ whitening' = [SetRelaxTime(whitening, relaxTime) EXCEPT
                         !.last = "SetRelaxTime", !.ops = @ + 1]
    /\ WhiteningCall("SetRelaxTime")

CallWhiteningReset ==
    /\ LET s == WhiteningReset(whitening)
       IN  whitening' = [s EXCEPT !.resetFloor = s.Floor,
                                  !.withoutPeaks = s.PeakValues,
                                  !.last = "Reset",
                                  !.ops = @ + 1]
    /\ WhiteningCall("Reset")

(***************************************************************************)
(* Two detectors side by side                                              *)
(*                                                                         *)
(* NewOnset allocates the Onset and the objects it points to; the methods  *)
(* read and write through those pointers.  The heap maps addresses to the  *)
(* objects; a constructor takes the lowest free address.  Of the objects   *)
(* an Onset points to, those with state in this model are kept: the peak   *)
(* picker, the descriptor and the spectral frame.                          *)
(***************************************************************************)
Instances == {1, 2}

Alloc(h) ==
    CHOOSE a \in DOMAIN h :
        h[a].kind = "free" /\ \A b \in DOMAIN h : h[b].kind = "free" => a <= b

\* A plausible slip: one package-level peak picker handed to every detector.
NewPeakPickerShared(h) ==
    IF \E a \in DOMAIN h : h[a].kind = "PeakPicker"
    THEN [heap |-> h, addr |-> CHOOSE a \in DOMAIN h : h[a].kind = "PeakPicker"]
    ELSE LET a == Alloc(h)
         IN  [heap |-> [h EXCEPT ![a] = [kind |-> "PeakPicker", Threshold |-> 100,
                                         OnsetPeek |-> <<0, 0, 0>>]],
              addr |-> a]

\* p := &PeakPicker{Threshold: 0.1, ...}; p.OnsetPeek = NewFvec(3)
NewPeakPickerAt(h) ==
    LET a == Alloc(h)
    IN  [heap |-> [h EXCEPT ![a] = [kind |-> "PeakPicker", Threshold |-> 100,
                                    OnsetPeek |-> <<0, 0, 0>>]],
         addr |-> a]

\* s := &Specdesc{...}; s.OnsetType set from the mode string
NewSpecdescAt(h, onsetMode) ==
    LET a == Alloc(h)
    IN  [heap |-> [h EXCEPT ![a] = [kind |-> "Specdesc",
                                    OnsetType |-> NewSpecdesc(onsetMode)]],
         addr |-> a]

\* NewCvec(bufSize): the frame, as the model's frame record
NewCvecAt(h) ==
    LET a == Alloc(h)
    IN  [heap |-> [h EXCEPT ![a] = [kind |-> "Cvec",
                                    grain |-> [whitened |-> FALSE, logmag |-> 0]]],
         addr |-> a]

\* The state of the detector at address a, read through its pointers.
View(h, a) ==
    [Samplerate |-> h[a].Samplerate,
     HopSize |-> h[a].HopSize,
     Silence |-> h[a].Silence,
     Minioi |-> h[a].Minioi,
     Delay |-> h[a].Delay,
     TotalFrames |-> h[a].TotalFrames,
     LastOnset |-> h[a].LastOnset,
     ApplyCompression |-> h[a].ApplyCompression,
     LambdaCompression |-> h[a].LambdaCompression,
     ApplyAWhitening |-> h[a].ApplyAWhitening,
     PpThreshold |-> h[h[a].Pp].Threshold,
     OnsetPeek |-> h[h[a].Pp].OnsetPeek,
     OnsetType |-> h[h[a].Od].OnsetType,
     Fftgrain |-> h[h[a].Fftgrain].grain]

\* The writes of a method of the detector at address a, each to the object
\* that holds the field.
Store(h, a, s) ==
    LET h1 == [h EXCEPT ![a] = [@ EXCEPT !.Silence = s.Silence,
                                         !.Minioi = s.Minioi,
                                         !.Delay = s.Delay,
                                         !.TotalFrames = s.TotalFrames,
                                         !.LastOnset = s.LastOnset,
                                         !.ApplyCompression = s.ApplyCompression,
                                         !.LambdaCompression = s.LambdaCompression,
                                         !.ApplyAWhitening = s.ApplyAWhitening]]
        h2 == [h1 EXCEPT ![h[a].Pp] = [@ EXCEPT !.Threshold = s.PpThreshold,
                                                !.OnsetPeek = s.OnsetPeek]]
    IN  [h2 EXCEPT ![h[a].Fftgrain] = [@ EXCEPT !.grain = s.Fftgrain]]

\* The detector NewOnset returns, as one record.
OnsetOf(onsetMode, bufSize, hopSize, samplerate) ==
    LET c == SetDefaultParameters(Join(ToLower(onsetMode)), hopSize, samplerate,
                                  [lambda |-> 0, compress |-> FALSE])
    IN  [Samplerate |-> samplerate,
         HopSize |-> hopSize,
         Silence |-> c.silence,
         Minioi |-> c.minioi,
         Delay |-> c.delay,
         TotalFrames |-> 0,
         LastOnset |-> 0,
         ApplyCompression |-> c.compress,
         LambdaCompression |-> c.lambda,
         ApplyAWhitening |-> c.whiten,
         PpThreshold |-> c.threshold,
         OnsetPeek |-> <<0, 0, 0>>,
         OnsetType |-> NewSpecdesc(onsetMode),
         Fftgrain |-> [whitened |-> FALSE, logmag |-> 0]]

\* NewOnset on the heap: the picker, the descriptor and the frame, then the
\* Onset itself, then SetDefaultParameters and Reset through the pointers.
NewOnsetAt(h, onsetMode, bufSize, hopSize, samplerate) ==
    LET pp == NewPeakPickerAt(h)
        od == NewSpecdescAt(pp.heap, onsetMode)
        gr == NewCvecAt(od.heap)
        a == Alloc(gr.heap)
        o == [kind |-> "Onset", Pp |-> pp.addr, Od |-> od.addr, Fftgrain |-> gr.addr,
              Samplerate |-> samplerate, HopSize |-> hopSize,
              Silence |-> 0, Minioi |-> 0, Delay |-> 0, TotalFrames |-> 0,
              LastOnset |-> 0, ApplyCompression |-> FALSE, LambdaCompression |-> 0,
              ApplyAWhitening |-> FALSE]
        h1 == [gr.heap EXCEPT ![a] = o]
        s == OnsetOf(onsetMode, bufSize, hopSize, samplerate)
    IN  [heap |-> Store(h1, a, [View(h1, a) EXCEPT
                                   !.Silence = s.Silence,
                                   !.Minioi = s.Minioi,
                                   !.Delay = s.Delay,
                                   !.ApplyCompression = s.ApplyCompression,
                                   !.LambdaCompression = s.LambdaCompression,
                                   !.ApplyAWhitening = s.ApplyAWhitening,
                                   !.PpThreshold = s.PpThreshold,
                                   !.TotalFrames = 0,
                                   !.LastOnset = 0]),
         addr |-> a]

\* Onset.Do on a detector record: the new record and the output written.
DoOn(s, input, thresholded) ==
    LET peek == PeekShift(s.OnsetPeek, thresholded)
        pp == PeakPickerOut(peek)
        silent == SilenceDetection(input, s.Silence)
        r == IF IsPositive(pp)
             THEN PeakBranch(pp, silent, s.TotalFrames, s.LastOnset, s.Minioi,
                             s.Delay, s.HopSize)
             ELSE StartBranch(pp, silent, s.TotalFrames, s.LastOnset, s.Minioi,
                              s.Delay, s.HopSize)
    IN  [state |-> [s EXCEPT
                       !.Fftgrain = FrameOf(s.ApplyAWhitening, s.ApplyCompression,
                                            s.LambdaCompression),
                       !.OnsetPeek = peek,
                       !.LastOnset = r.last,
                       !.TotalFrames = Advance(s.TotalFrames, s.HopSize)],
         out |-> r.isonset]

SetThresholdOn(s, threshold) == [s EXCEPT !.PpThreshold = threshold]
SetDelayOn(s, delay) == [s EXCEPT !.Delay = delay]
ResetOn(s) == [s EXCEPT !.LastOnset = 0, !.TotalFrames = 0]

\* A call by caller i on its detector.
PairCall(i) ==
    /\ inst[i] # 0
    /\ alone[i].ops < MaxPairOps
    /\ actor' = i
    /\ UNCHANGED <<inst, onsetVars, medVars, pkVars, filterVars, picker, whitening, desc, medRun>>

\* What a call leaves behind: the heap written through the caller's pointer,
\* and the same call replayed on the caller's own record.
PairEffect(i, onHeap, out, replayed) ==
    /\ heap' = Store(heap, inst[i], onHeap)
    /\ pairOut' = [pairOut EXCEPT ![i] = out]
    /\ alone' = [alone EXCEPT ![i] = [@ EXCEPT !.state = replayed.state,
                                               !.out = replayed.out,
                                               !.ops = @ + 1]]

PairNewOnset(i, onsetMode) ==
    /\ inst[i] = 0
    /\ LET r == NewOnsetAt(heap, onsetMode, 8, 4, 100)
       IN  /\ heap' = r.heap
           /\ inst' = [inst EXCEPT ![i] = r.addr]
    /\ alone' = [alone EXCEPT ![i] = [built |-> TRUE, ops |-> 0,
                                      state |-> OnsetOf(onsetMode, 8, 4, 100),
                                      out |-> Zero]]
    /\ actor' = i
    /\ UNCHANGED <<pairOut, onsetVars, medVars, pkVars, filterVars, picker, whitening, desc, medRun>>

PairDo(i, input, thresholded) ==
    /\ PairCall(i)
    /\ LET r == DoOn(View(heap, inst[i]), input, thresholded)
       IN  PairEffect(i, r.state, r.out, DoOn(alone[i].state, input, thresholded))

PairSetThreshold(i, threshold) ==
    /\ PairCall(i)
    /\ PairEffect(i, SetThresholdOn(View(heap, inst[i]), threshold), pairOut[i],
                  [state |-> SetThresholdOn(alone[i].state, threshold),
                   out |-> alone[i].out])

PairSetDelay(i, delay) ==
    /\ PairCall(i)
    /\ PairEffect(i, SetDelayOn(View(heap, inst[i]), delay), pairOut[i],
                  [state |-> SetDelayOn(alone[i].state, delay),
                   out |-> alone[i].out])

PairReset(i) ==
    /\ PairCall(i)
    /\ PairEffect(i, ResetOn(View(heap, inst[i])), pairOut[i],
                  [state |-> ResetOn(alone[i].state), out |-> alone[i].out])

(***************************************************************************)
(* part_000: the spectral descriptor bank and its per-bin history          *)
(*                                                                         *)
(* Magnitudes (Norm, OldMag, Threshold) are in tenths; phases (Phas,       *)
(* Theta1, Theta2, and Dev1 of complex) are whole multiples of pi/2, for   *)
(* which the cosine is 1, 0, -1 or 0.  Dev1 of specdiff is kept as its     *)
(* square.  The value written to onset.Data[0] is the sum of what the loop *)
(* adds; it is kept as the sequence of the addends in the order they are   *)
(* added, each a triple <<f, a, b>>: "id" is a itself, "sqrt" the square   *)
(* root of a, "nlog" a * log(1 + a / (b + 0.1)), "log" log(1 + a / (b +    *)
(* 0.1)).  A bin that adds nothing leaves no addend.  With magnitudes      *)
(* >= 0 the sum of kl and mkl is never NaN, so their final IsNaN test      *)
(* changes nothing.                                                        *)
(***************************************************************************)
\* NewSpecdesc(onsetMode, size): the type tag, the threshold and the four
\* zeroed history vectors of length size/2 + 1
SpecdescOf(onsetMode, size) ==
    LET rsize == (size \div 2) + 1
    IN  [OnsetType |-> NewSpecdesc(onsetMode),
         Threshold |-> 1,
         OldMag |-> ZeroSeq(rsize),
         Dev1 |-> ZeroSeq(rsize),
         Theta1 |-> ZeroSeq(rsize),
         Theta2 |-> ZeroSeq(rsize)]

energy(s, fftgrain) ==
    [s |-> s,
     onset |-> [j \in 1..fftgrain.Length |->
                   <<"id", fftgrain.Norm[j] * fftgrain.Norm[j], 0>>]]

\* float64(j+1) for the 0-based j of the loop is the 1-based index here
hfc(s, fftgrain) ==
    [s |-> s,
     onset |-> [j \in 1..fftgrain.Length |-> <<"id", j * fftgrain.Norm[j], 0>>]]

\* A plausible slip: the history of a bin stored only when its distance counts.
complexStoresWhenCounted(s, fftgrain) ==
    LET Cos(k) == CASE k % 4 = 0 -> 1 [] k % 4 = 2 -> -1 [] OTHER -> 0
        dev1 == [j \in 1..fftgrain.Length |-> 2 * s.Theta1[j] - s.Theta2[j]]
        val == [j \in 1..fftgrain.Length |->
                   s.OldMag[j] * s.OldMag[j] + fftgrain.Norm[j] * fftgrain.Norm[j]
                   - 2 * s.OldMag[j] * fftgrain.Norm[j] * Cos(dev1[j] - fftgrain.Phas[j])]
        keep(old, new) == [j \in 1..fftgrain.Length |->
                              IF val[j] > 0 THEN new[j] ELSE old[j]]
    IN  [s |-> [s EXCEPT !.Dev1 = dev1,
                         !.Theta2 = keep(s.Theta2, s.Theta1),
                         !.Theta1 = keep(s.Theta1, fftgrain.Phas),
                         !.OldMag = keep(s.OldMag, fftgrain.Norm)],
         onset |-> SelectSeq([j \in 1..fftgrain.Length |->
                                 IF val[j] > 0 THEN <<"sqrt", val[j], 0>>
                                 ELSE <<"none", 0, 0>>],
                             LAMBDA t : t[1] # "none")]

complex(s, fftgrain) ==
    LET Cos(k) == CASE k % 4 = 0 -> 1 [] k % 4 = 2 -> -1 [] OTHER -> 0
        dev1 == [j \in 1..fftgrain.Length |-> 2 * s.Theta1[j] - s.Theta2[j]]
        val == [j \in 1..fftgrain.Length |->
                   s.OldMag[j] * s.OldMag[j] + fftgrain.Norm[j] * fftgrain.Norm[j]
                   - 2 * s.OldMag[j] * fftgrain.Norm[j] * Cos(dev1[j] - fftgrain.Phas[j])]
    IN  [s |-> [s EXCEPT !.Dev1 = dev1,
                         !.Theta2 = [j \in 1..fftgrain.Length |-> s.Theta1[j]],
                         !.Theta1 = [j \in 1..fftgrain.Length |-> fftgrain.Phas[j]],
                         !.OldMag = [j \in 1..fftgrain.Length |-> fftgrain.Norm[j]]],
         onset |-> SelectSeq([j \in 1..fftgrain.Length |->
                                 IF val[j] > 0 THEN <<"sqrt", val[j], 0>>
                                 ELSE <<"none", 0, 0>>],
                             LAMBDA t : t[1] # "none")]

phase(s, fftgrain) ==
    LET Abs(x) == IF x < 0 THEN -x ELSE x
        dev == [j \in 1..fftgrain.Length |-> Abs(fftgrain.Phas[j] - s.Theta1[j])]
    IN  [s |-> [s EXCEPT !.Theta1 = [j \in 1..fftgrain.Length |-> fftgrain.Phas[j]]],
         onset |-> SelectSeq([j \in 1..fftgrain.Length |->
                                 IF s.Threshold < fftgrain.Norm[j]
                                 THEN <<"id", dev[j], 0>>
                                 ELSE <<"none", 0, 0>>],
                             LAMBDA t : t[1] # "none")]

wphase(s, fftgrain) ==
    LET Abs(x) == IF x < 0 THEN -x ELSE x
        dev == [j \in 1..fftgrain.Length |-> Abs(fftgrain.Phas[j] - s.Theta1[j])]
    IN  [s |-> [s EXCEPT !.Theta1 = [j \in 1..fftgrain.Length |-> fftgrain.Phas[j]]],
         onset |-> SelectSeq([j \in 1..fftgrain.Length |->
                                 IF s.Threshold < fftgrain.Norm[j]
                                 THEN <<"id", fftgrain.Norm[j] * dev[j], 0>>
                                 ELSE <<"none", 0, 0>>],
                             LAMBDA t : t[1] # "none")]

specdiff(s, fftgrain) ==
    LET val == [j \in 1..fftgrain.Length |->
                   fftgrain.Norm[j] * fftgrain.Norm[j] - s.OldMag[j] * s.OldMag[j]]
        dev1 == [j \in 1..fftgrain.Length |-> IF val[j] > 0 THEN val[j] ELSE 0]
    IN  [s |-> [s EXCEPT !.Dev1 = dev1,
                         !.OldMag = [j \in 1..fftgrain.Length |-> fftgrain.Norm[j]]],
         onset |-> SelectSeq([j \in 1..fftgrain.Length |->
                                 IF s.Threshold < fftgrain.Norm[j]
                                 THEN <<"sqrt", dev1[j], 0>>
                                 ELSE <<"none", 0, 0>>],
                             LAMBDA t : t[1] # "none")]

kl(s, fftgrain) ==
    [s |-> [s EXCEPT !.OldMag = [j \in 1..fftgrain.Length |-> fftgrain.Norm[j]]],
     onset |-> [j \in 1..fftgrain.Length |->
                   <<"nlog", fftgrain.Norm[j], s.OldMag[j]>>]]

mkl(s, fftgrain) ==
    [s |-> [s EXCEPT !.OldMag = [j \in 1..fftgrain.Length |-> fftgrain.Norm[j]]],
     onset |-> [j \in 1..fftgrain.Length |->
                   <<"log", fftgrain.Norm[j], s.OldMag[j]>>]]

specflux(s, fftgrain) ==
    [s |-> [s EXCEPT !.OldMag = [j \in 1..fftgrain.Length |-> fftgrain.Norm[j]]],
     onset |-> SelectSeq([j \in 1..fftgrain.Length |->
                             IF fftgrain.Norm[j] > s.OldMag[j]
                             THEN <<"id", fftgrain.Norm[j] - s.OldMag[j], 0>>
                             ELSE <<"none", 0, 0>>],
                         LAMBDA t : t[1] # "none")]

\* Specdesc.Do: the dispatch on the type tag
SpecdescDo(s, fftgrain) ==
    CASE s.OnsetType = "OnsetEnergy" -> energy(s, fftgrain)
      [] s.OnsetType = "OnsetHFC" -> hfc(s, fftgrain)
      [] s.OnsetType = "OnsetComplex" -> complex(s, fftgrain)
      [] s.OnsetType = "OnsetPhase" -> phase(s, fftgrain)
      [] s.OnsetType = "OnsetWPhase" -> wphase(s, fftgrain)
      [] s.OnsetType = "OnsetSpecdiff" -> specdiff(s, fftgrain)
      [] s.OnsetType = "OnsetKL" -> kl(s, fftgrain)
      [] s.OnsetType = "OnsetMKL" -> mkl(s, fftgrain)
      [] s.OnsetType = "OnsetSpecflux" -> specflux(s, fftgrain)
      [] OTHER -> hfc(s, fftgrain)

\* Specdesc.Do on a frame of two bins; before is the descriptor as the call
\* found it.
CallSpecdescDo(norm, phas) ==
    /\ desc.ops < MaxDescOps
    /\ LET fftgrain == [Length |-> 2, Norm |-> norm, Phas |-> phas]
           r == SpecdescDo(desc.s, fftgrain)
       IN  desc' = [s |-> r.s, before |-> desc.s, fftgrain |-> fftgrain,
                    onset |-> r.onset, ops |-> desc.ops + 1]
    /\ UNCHANGED <<onsetVars, medVars, pkVars, filterVars, pairVars, picker, whitening,
                   medRun>>

(***************************************************************************)
(* FvecMedian statement by statement                                       *)
(*                                                                         *)
(* mem holds the two backing arrays, input.Data and the one made for arr;  *)
(* ref names the array the slice arr refers to.  at is the position in the *)
(* code: "call", "outer" (top of the outer loop), "scanll" and "scanhh"    *)
(* (the condition of each scan), "swap" (after the scans), "return", and   *)
(* "panic" when an index is out of range.  Indices are 0-based.            *)
(***************************************************************************)
\* The length test, the copy and the initial bounds.
MedianEnter ==
    /\ medRun.at = "call"
    /\ medRun' =
          IF Len(medRun.mem.input) = 0
          THEN [medRun EXCEPT !.at = "return", !.ret = 0]
          ELSE LET n == Len(medRun.mem.input)
               IN  [medRun EXCEPT !.at = "outer",
                                  !.ref = "arr",
                                  !.mem.arr = medRun.mem.input,
                                  !.low = 0,
                                  !.high = n - 1,
                                  !.median = (0 + (n - 1)) \div 2]
    /\ UNCHANGED <<onsetVars, medVars, pkVars, filterVars, pairVars, picker, whitening,
                   desc>>

\* The top of the outer loop: the two returns, or the median of three, the
\* swap into low + 1 and the start of the first scan (ll++ of its for clause).
MedianOuter ==
    /\ medRun.at = "outer"
    /\ LET arr == medRun.mem[medRun.ref]
           low == medRun.low
           high == medRun.high
           middle == (low + high) \div 2
           a3 == SwapIfGreater(SwapIfGreater(SwapIfGreater(arr, middle, high),
                                             low, high),
                               middle, low)
           a4 == Swap(a3, middle, low + 1)
       IN  medRun' =
              IF {low, high, medRun.median} \ (0..(Len(arr) - 1)) # {}
              THEN [medRun EXCEPT !.at = "panic"]
              ELSE IF high <= low
              THEN [medRun EXCEPT !.at = "return", !.ret = arr[medRun.median + 1]]
              ELSE IF high = low + 1
              THEN [medRun EXCEPT
                       !.at = "return",
                       !.mem[medRun.ref] = SwapIfGreater(arr, low, high),
                       !.ret = SwapIfGreater(arr, low, high)[medRun.median + 1]]
              ELSE [medRun EXCEPT !.at = "scanll",
                                  !.mem[medRun.ref] = a4,
                                  !.ll = (low + 1) + 1,
                                  !.hh = high]
    /\ UNCHANGED <<onsetVars, medVars, pkVars, filterVars, pairVars, picker, whitening,
                   desc>>

\* A plausible slip: the upward scan passing over values equal to the pivot.
MedianScanLlNonStrict ==
    /\ medRun.at = "scanll"
    /\ LET arr == medRun.mem[medRun.ref]
       IN  medRun' =
              IF medRun.ll \notin 0..(Len(arr) - 1)
              THEN [medRun EXCEPT !.at = "panic"]
              ELSE IF arr[medRun.low + 1] >= arr[medRun.ll + 1]
              THEN [medRun EXCEPT !.ll = @ + 1]
              ELSE [medRun EXCEPT !.at = "scanhh", !.hh = @ - 1]
    /\ UNCHANGED <<onsetVars, medVars, pkVars, filterVars, pairVars, picker, whitening,
                   desc>>

\* for ll++; arr[low] > arr[ll]; ll++ {}  -- one test of the condition; when
\* it fails the next scan starts (hh-- of its for clause).
MedianScanLl ==
    /\ medRun.at = "scanll"
    /\ LET arr == medRun.mem[medRun.ref]
       IN  medRun' =
              IF medRun.ll \notin 0..(Len(arr) - 1)
              THEN [medRun EXCEPT !.at = "panic"]
              ELSE IF arr[medRun.low + 1] > arr[medRun.ll + 1]
              THEN [medRun EXCEPT !.ll = @ + 1]
              ELSE [medRun EXCEPT !.at = "scanhh", !.hh = @ - 1]
    /\ UNCHANGED <<onsetVars, medVars, pkVars, filterVars, pairVars, picker, whitening,
                   desc>>

\* for hh--; arr[hh] > arr[low]; hh-- {}  -- one test of the condition
MedianScanHh ==
    /\ medRun.at = "scanhh"
    /\ LET arr == medRun.mem[medRun.ref]
       IN  medRun' =
              IF medRun.hh \notin 0..(Len(arr) - 1)
              THEN [medRun EXCEPT !.at = "panic"]
              ELSE IF arr[medRun.hh + 1] > arr[medRun.low + 1]
              THEN [medRun EXCEPT !.hh = @ - 1]
              ELSE [medRun EXCEPT !.at = "swap"]
    /\ UNCHANGED <<onsetVars, medVars, pkVars, filterVars, pairVars, picker, whitening,
                   desc>>

\* After the scans: the break with the pivot swapped back and the active
\* partition re-set, or the swap of arr[ll] and arr[hh] and the next scan.
MedianSwap ==
    /\ medRun.at = "swap"
    /\ LET arr == medRun.mem[medRun.ref]
           ll == medRun.ll
           hh == medRun.hh
       IN  medRun' =
              IF {ll, hh} \ (0..(Len(arr) - 1)) # {}
              THEN [medRun EXCEPT !.at = "panic"]
              ELSE IF hh < ll
              THEN [medRun EXCEPT
                       !.at = "outer",
                       !.mem[medRun.ref] = Swap(arr, medRun.low, hh),
                       !.low = IF hh <= medRun.median THEN ll ELSE @,
                       !.high = IF hh >= medRun.median THEN hh - 1 ELSE @]
              ELSE [medRun EXCEPT !.at = "scanll",
                                  !.mem[medRun.ref] = Swap(arr, ll, hh),
                                  !.ll = ll + 1]
    /\ UNCHANGED <<onsetVars, medVars, pkVars, filterVars, pairVars, picker, whitening,
                   desc>>

(***************************************************************************)
(* Specifications                                                          *)
(***************************************************************************)
\* The parts a specification does not exercise are not built: they stay the
\* empty tuple.
IdleExcept(used) ==
    /\ IF "median" \in used THEN TRUE
       ELSE medIn = <<>> /\ medOut = <<>>
    /\ IF "peak" \in used THEN TRUE
       ELSE pkIn = <<>> /\ pkOut = <<>>
    /\ IF "filter" \in used THEN TRUE
       ELSE filter = <<>> /\ fin = <<>>
    /\ IF "pair" \in used THEN TRUE
       ELSE /\ heap = <<>>
            /\ inst = <<>>
            /\ pairOut = <<>>
            /\ alone = <<>>
            /\ actor = 0
    /\ IF "picker" \in used THEN TRUE
       ELSE picker = <<>>
    /\ IF "whitening" \in used THEN TRUE
       ELSE whitening = <<>>
    /\ IF "desc" \in used THEN TRUE
       ELSE desc = <<>>
    /\ IF "medRun" \in used THEN TRUE
       ELSE medRun = <<>>

Init ==
    /\ NewOnset(Mode.hfc, 8, 4, 100)
    /\ IdleExcept({})

Next ==
    \/ \E input \in Inputs, thresholded \in ThresholdedVals :
          nCalls < MaxCalls /\ Do(input, thresholded)
    \/ Reset
    \/ \E enable \in BOOLEAN : SetAWhitening(enable)
    \/ \E lambda \in LambdaArgs : SetCompression(lambda)
    \/ \E silence \in SilenceArgs : SetSilence(silence)
    \/ \E threshold \in ThresholdArgs : SetThreshold(threshold)
    \/ \E minioi \in MinioiArgs : SetMinioi(minioi)
    \/ \E delay \in DelayArgs : SetDelay(delay)

Spec == Init /\ [][Next]_vars

\* A detector whose Delay and Minioi are set only before the first hop after
\* construction or Reset.
InitRun ==
    /\ NewOnset(Mode.hfc, 8, 4, 100)
    /\ IdleExcept({})

NextRun ==
    \/ \E input \in Inputs, thresholded \in ThresholdedVals :
          nCalls < MaxCalls /\ Do(input, thresholded)
    \/ Reset
    \/ \E minioi \in MinioiArgs :
          TotalFrames = 0 /\ LastOnset = 0 /\ SetMinioi(minioi)
    \/ \E delay \in DelayArgs :
          TotalFrames = 0 /\ LastOnset = 0 /\ SetDelay(delay)

SpecRun == InitRun /\ [][NextRun]_vars

\* A freshly constructed HFC detector (window 512, hop 256, 44100 Hz) fed
\* non-silent hops only.
InitTone ==
    /\ NewOnset(Mode.hfc, 512, 256, 44100)
    /\ IdleExcept({})

NextTone ==
    \E input \in Inputs, thresholded \in ThresholdedVals :
        /\ nCalls < ToneHops
        /\ ~SilenceDetection(input, Silence)
        /\ Do(input, thresholded)

SpecTone == InitTone /\ [][NextTone]_vars

\* The two medians on every vector up to MaxMedLen values.
InitMedian ==
    /\ NewOnset(Mode.hfc, 8, 4, 100)
    /\ medIn \in SeqsOver(0..MaxMedVal, MaxMedLen)
    /\ medOut = <<>>
    /\ IdleExcept({"median"})

NextMedian == RunMedian

SpecMedian == InitMedian /\ [][NextMedian]_vars

\* FvecPeakPick and FvecQuadraticPeakPos on every vector of up to MaxPeakLen
\* values and every position up to MaxPeakLen.
InitPeak ==
    /\ NewOnset(Mode.hfc, 8, 4, 100)
    /\ \E v \in SeqsOver(-1..MaxPeakVal, MaxPeakLen), pos \in 0..MaxPeakLen :
           pkIn = [v |-> v, pos |-> pos]
    /\ pkOut = PkNone
    /\ IdleExcept({"peak"})

NextPeak == RunPeakPick \/ RunQuadraticPeakPos

SpecPeak == InitPeak /\ [][NextPeak]_vars

\* A filter built with NewFilter or NewBiquadFilter and applied to a buffer of
\* up to MaxFilterLen samples.
InitFilter ==
    /\ NewOnset(Mode.hfc, 8, 4, 100)
    /\ filter = NoFilter
    /\ \E data \in SeqsOver({0, 1000, 2000}, MaxFilterLen) :
           fin = [data |-> data, orig |-> data]
    /\ IdleExcept({"filter"})

NextFilter ==
    \/ \E order \in 0..MaxOrder : CallNewFilter(order)
    \/ \E c \in BiquadArgs : CallNewBiquadFilter(c)
    \/ CallFilterDo
    \/ CallDoFiltFilt
    \/ CallFilterReset

SpecFilter == InitFilter /\ [][NextFilter]_vars

\* A detector constructed with any of the mode strings, then used.
InitModeStrings ==
    /\ \E mode \in ModeStrings : NewOnset(mode, 8, 4, 100)
    /\ IdleExcept({})

NextModeStrings ==
    \/ \E input \in Inputs : nCalls < ModeCalls /\ Do(input, MaxThresholded)
    \/ Reset
    \/ \E enable \in BOOLEAN : SetAWhitening(enable)
    \/ \E lambda \in LambdaArgs : SetCompression(lambda)
    \/ \E silence \in SilenceArgs : SetSilence(silence)
    \/ \E threshold \in ThresholdArgs : SetThreshold(threshold)
    \/ \E minioi \in MinioiArgs : SetMinioi(minioi)
    \/ \E delay \in DelayArgs : SetDelay(delay)

SpecModeStrings == InitModeStrings /\ [][NextModeStrings]_vars

\* Two callers, each constructing a detector and calling it, in any order.
InitPair ==
    /\ NewOnset(Mode.hfc, 8, 4, 100)
    /\ heap = [a \in 1..(4 * Cardinality(Instances)) |-> [kind |-> "free"]]
    /\ inst = [i \in Instances |-> 0]
    /\ pairOut = [i \in Instances |-> Zero]
    /\ alone = [i \in Instances |-> [built |-> FALSE, ops |-> 0]]
    /\ actor = 0
    /\ IdleExcept({"pair"})

NextPair ==
    \E i \in Instances :
        \/ \E onsetMode \in {Mode.hfc, Mode.energy} : PairNewOnset(i, onsetMode)
        \/ \E input \in {<<0, 0>>, <<500, 250>>}, thresholded \in {0, MaxThresholded} :
              PairDo(i, input, thresholded)
        \/ \E threshold \in ThresholdArgs : PairSetThreshold(i, threshold)
        \/ \E delay \in DelayArgs : PairSetDelay(i, delay)
        \/ PairReset(i)

SpecPair == InitPair /\ [][NextPair]_vars

\* A peak picker fed a novelty value per hop.
InitPicker ==
    /\ NewOnset(Mode.hfc, 8, 4, 100)
    /\ picker = NewPeakPicker
    /\ IdleExcept({"picker"})

NextPicker ==
    \/ \E novelty \in {0, 1000, 2000} : CallPeakPickerDo(novelty)
    \/ \E threshold \in ThresholdArgs : CallPeakPickerSetThreshold(threshold)

SpecPicker == InitPicker /\ [][NextPicker]_vars

\* A whitening object applied to frames, with its setters and Reset.
InitWhitening ==
    /\ NewOnset(Mode.hfc, 8, 4, 100)
    /\ whitening = NewSpectralWhitening
    /\ IdleExcept({"whitening"})

NextWhitening ==
    \/ \E norm \in {<<0, 0>>, <<5000, 2>>, <<20000, 30000>>} : CallWhiteningDo(norm)
    \/ \E floor \in {0, 10000} : CallWhiteningSetFloor(floor)
    \/ \E relaxTime \in {1, 3, 250} : CallWhiteningSetRelaxTime(relaxTime)
    \/ CallWhiteningReset

SpecWhitening == InitWhitening /\ [][NextWhitening]_vars

\* A descriptor of each kind, built for a window of two samples (two bins),
\* applied to a frame per hop.
InitDesc ==
    /\ NewOnset(Mode.hfc, 8, 4, 100)
    /\ IdleExcept({"desc"})
    /\ \E k \in DOMAIN Mode :
           desc = [s |-> SpecdescOf(Mode[k], 2),
                   before |-> SpecdescOf(Mode[k], 2),
                   fftgrain |-> [Length |-> 2, Norm |-> <<0, 0>>, Phas |-> <<0, 0>>],
                   onset |-> <<>>,
                   ops |-> 0]

NextDesc ==
    \E norm \in {<<0, 2>>, <<2, 1>>}, phas \in {<<0, 0>>, <<1, 1>>, <<2, 2>>} :
        CallSpecdescDo(norm, phas)

SpecDesc == InitDesc /\ [][NextDesc]_vars

\* FvecMedian called on every vector of up to MaxRunLen values and run to its
\* return; the single-threaded call always takes its next step.
InitMedianRun ==
    /\ NewOnset(Mode.hfc, 8, 4, 100)
    /\ IdleExcept({"medRun"})
    /\ \E input \in SeqsOver(0..MaxRunVal, MaxRunLen) :
          medRun = [at |-> "call", orig |-> input, ref |-> "input",
                    mem |-> [input |-> input, arr |-> <<>>],
                    low |-> 0, high |-> 0, median |-> 0, ll |-> 0, hh |-> 0,
                    ret |-> 0]

NextMedianRun ==
    \/ MedianEnter
    \/ MedianOuter
    \/ MedianScanLl
    \/ MedianScanHh
    \/ MedianSwap

SpecMedianRun == InitMedianRun /\ [][NextMedianRun]_vars /\ WF_vars(NextMedianRun)

(***************************************************************************)
(* Claims                                                                  *)
(***************************************************************************)
DoStep == nCalls' = nCalls + 1
AfterDo == lastCall[1] = "Do"
PeakReported == FvecPeakPick(OnsetPeek, 1)

\* C1: an onset accepted after an earlier one (no Reset in between) records a
\* LastOnset strictly greater than the earlier LastOnset plus Minioi.
C1_MinInterOnset ==
    [][(DoStep /\ IsPositive(onset') /\ nOnsets >= 1)
          => LastOnset' > LastOnset + Minioi]_vars

\* Two onsets were accepted since construction or Reset, the second just now.
C1_Witness == AfterDo /\ IsPositive(onset) /\ nOnsets = 2

\* C2: GetLast() does not decrease across a Do call.
C2_GetLastMonotone == [][DoStep => GetLast' >= GetLast]_vars

\* A hop without an onset after two accepted onsets, GetLast() positive.
C2_Witness == AfterDo /\ IsZero(onset) /\ nOnsets = 2 /\ GetLast > 0

\* C3 as stated: on a fresh HFC detector (512/256/44100) fed a non-silent
\* signal, every hop on which no peak is reported writes 0, the first included.
C3_ToneNoOnsets == (AfterDo /\ ~PeakReported) => IsZero(onset)

\* C3 amended: the first hop writes the forced start onset Delay / HopSize =
\* 1100 / 256 and sets LastOnset to 1100; every later hop on which no peak is
\* reported writes 0, and hops 2..12 write 0 whatever the peak picker reports.
C3_ToneOnlyStartOnset ==
    AfterDo =>
        /\ nCalls = 1 => (onset = Frac(1100, 256) /\ LastOnset = 1100)
        /\ (nCalls >= 2 /\ ~PeakReported) => IsZero(onset)
        /\ (nCalls >= 2 /\ nCalls <= 12) => IsZero(onset)

\* All hops processed and no onset but the forced one at the start.
C3_Witness == AfterDo /\ nCalls = ToneHops /\ IsZero(onset) /\ LastOnset = 1100

\* C4: a Do call on a silent hop writes 0 and leaves LastOnset unchanged.
C4_SilenceGating ==
    [][(DoStep /\ lastCall'[2] = TRUE)
          => (IsZero(onset') /\ LastOnset' = LastOnset)]_vars

\* A silent hop on which the peak picker reported a peak, inside the delay.
C4_Witness ==
    lastCall = <<"Do", TRUE>> /\ PeakReported /\ TotalFrames <= Delay /\ Delay > 0

\* C5: a Do call that does not write an output > 0 leaves LastOnset unchanged.
C5_LastOnsetFrame ==
    [][(DoStep /\ ~IsPositive(onset')) => LastOnset' = LastOnset]_vars

\* A peak on a non-silent hop discarded after an earlier onset.
C5_Witness ==
    lastCall = <<"Do", FALSE>> /\ PeakReported /\ IsZero(onset) /\ LastOnset > 0

\* C6: after n Do calls since construction or Reset, TotalFrames = n * HopSize.
C6_TotalFrames == TotalFrames = nCalls * HopSize

\* Several calls through different branches: an accepted onset, then a
\* silent hop.
C6_Witness == lastCall = <<"Do", TRUE>> /\ nCalls >= 3 /\ nOnsets >= 1

\* C7: the onset output is finite and either 0 or positive, and the position
\* interpolated for a detected peak is positive.
C7_OnsetNonNegative ==
    /\ onset.d > 0
    /\ IsZero(onset) \/ IsPositive(onset)
    /\ PeakReported => IsPositive(FvecQuadraticPeakPos(OnsetPeek, 1))

\* An accepted peak interpolated to a position left of the centre (p < 1).
C7_Witness ==
    AfterDo /\ PeakReported /\ IsPositive(onset) /\ onset.n < onset.d

\* C8: Reset zeroes TotalFrames and LastOnset and keeps the configuration.
C8_ResetFrame ==
    [][(lastCall'[1] = "Reset")
          => /\ TotalFrames' = 0
             /\ LastOnset' = 0
             /\ UNCHANGED <<Silence, Minioi, Delay, PpThreshold, ApplyAWhitening,
                            LambdaCompression, ApplyCompression>>]_vars

\* A Reset of a detector with a non-default delay that has processed hops.
C8_Witness ==
    /\ lastCall[1] = "Reset"
    /\ Delay = 8
    /\ OnsetPeek # <<0, 0, 0>>
    /\ TotalFrames = 0 /\ LastOnset = 0

\* C9: SetCompression(lambda) with lambda < 0 changes nothing; with
\* lambda >= 0, GetCompression() returns lambda afterwards; Do compresses the
\* frame exactly when the stored lambda is > 0, and with that lambda.
C9_Compression ==
    [][/\ (lastCall'[1] = "SetCompression" /\ lastCall'[2] < 0)
            => UNCHANGED <<LambdaCompression, ApplyCompression>>
       /\ (lastCall'[1] = "SetCompression" /\ lastCall'[2] >= 0)
            => GetCompression' = lastCall'[2]
       /\ DoStep => /\ (Fftgrain'.logmag > 0) = (LambdaCompression > 0)
                    /\ Fftgrain'.logmag > 0 => Fftgrain'.logmag = LambdaCompression
      ]_vars

\* A negative lambda was refused and the default of the HFC method kept.
C9_Witness ==
    lastCall = <<"SetCompression", -100>> /\ GetCompression = 100

\* C10 as stated: for every vector of length >= 3, FvecMedian returns the
\* value MedianSimple returns.
C10_MedianMatchesSort ==
    (medOut # <<>> /\ Len(medIn) >= 3)
        => /\ ~medOut[1].panic
           /\ FracEq(Frac(medOut[1].val, 1), medOut[2])

\* C11: FvecPeakPick(v, pos) returns true exactly when pos is interior
\* (0 < pos < Length - 1) and v[pos] is strictly greater than both neighbours
\* and strictly greater than 0; on a 3-wide window it is never true at
\* positions 0 or 2.
C11_PeakPick ==
    pkOut.op = "FvecPeakPick" =>
        LET v == pkIn.v
            pos == pkIn.pos
        IN  /\ pkOut.pick = (/\ 0 < pos
                             /\ pos < Len(v) - 1
                             /\ v[pos + 1] > v[pos]
                             /\ v[pos + 1] > v[pos + 2]
                             /\ v[pos + 1] > 0)
            /\ (Len(v) = 3 /\ pos \in {0, 2}) => ~pkOut.pick

\* A peak found at an interior position of a vector longer than the picker's.
C11_Witness ==
    /\ pkOut.op = "FvecPeakPick"
    /\ pkOut.pick
    /\ Len(pkIn.v) = 4
    /\ pkIn.pos = 2

\* C12 as stated: a filter constructed with order 0 is a no-op: construction
\* and every Do, DoFiltFilt and Reset on it complete without failure and leave
\* the buffer as it was.
C12_OrderZeroNoOp ==
    (filter.made /\ filter.Order = 0)
        => (~filter.panic /\ fin.data = fin.orig)

\* C13: the mode string selects the descriptor whatever its case: each of
\* energy, specdiff, hfc, complex / complexdomain, phase, wphase, kl, mkl and
\* specflux selects its own variant, "default" and every other string select
\* HFC, and the selected OnsetType never changes afterwards.
C13_ModeSelection ==
    /\ [](/\ modeArg \in Casings(Mode.energy) => OnsetType = "OnsetEnergy"
          /\ modeArg \in Casings(Mode.specdiff) => OnsetType = "OnsetSpecdiff"
          /\ modeArg \in Casings(Mode.hfc) => OnsetType = "OnsetHFC"
          /\ modeArg \in Casings(Mode.complex) \cup Casings(Mode.complexdomain)
                => OnsetType = "OnsetComplex"
          /\ modeArg \in Casings(Mode.phase) => OnsetType = "OnsetPhase"
          /\ modeArg \in Casings(Mode.wphase) => OnsetType = "OnsetWPhase"
          /\ modeArg \in Casings(Mode.kl) => OnsetType = "OnsetKL"
          /\ modeArg \in Casings(Mode.mkl) => OnsetType = "OnsetMKL"
          /\ modeArg \in Casings(Mode.specflux) => OnsetType = "OnsetSpecflux"
          /\ modeArg \in Casings(Mode.default) => OnsetType = "OnsetHFC"
          /\ modeArg \in UnrecognizedModes => OnsetType = "OnsetHFC")
    /\ [][OnsetType' = OnsetType]_vars

\* A detector constructed with "Specflux", after a Do call and a setter.
C13_Witness ==
    /\ modeArg = <<"S", "p", "e", "c", "f", "l", "u", "x">>
    /\ OnsetType = "OnsetSpecflux"
    /\ nCalls = 1
    /\ nSets = 1

\* C14: two detectors share no state: a call on one leaves the state and the
\* output buffer of the other as they were, and each detector's state and
\* output are those of the same calls run on that detector alone.
C14_NoSharedState ==
    /\ [](\A i \in Instances :
            inst[i] # 0 => /\ View(heap, inst[i]) = alone[i].state
                           /\ pairOut[i] = alone[i].out)
    /\ [][\A j \in Instances :
            (inst[j] # 0 /\ actor' # j)
                => /\ View(heap', inst[j]) = View(heap, inst[j])
                   /\ pairOut'[j] = pairOut[j]]_vars

\* Both detectors were called twice, the second caller's calls between the
\* first caller's, and they ended in different states.
C14_Witness ==
    /\ \A i \in Instances : inst[i] # 0 /\ alone[i].ops = 2
    /\ actor = 1
    /\ IsPositive(pairOut[1])
    /\ IsPositive(pairOut[2])
    /\ View(heap, inst[1]) # View(heap, inst[2])

\* C15: when the peak picker reports a position p > 0 on a non-silent hop,
\* with candidate = TotalFrames + round(p * HopSize), the onset is accepted
\* iff LastOnset + Minioi < candidate and not (LastOnset > 0 and
\* Delay > candidate); on acceptance LastOnset becomes max(Delay, candidate)
\* and the output is p, otherwise the output is 0 and LastOnset is unchanged.
C15_PeakAcceptance ==
    [][(DoStep /\ lastCall'[2] = FALSE /\ FvecPeakPick(OnsetPeek', 1))
          => LET pk == FvecQuadraticPeakPos(OnsetPeek', 1)
                 candidate == TotalFrames + (2 * pk.n * HopSize + pk.d) \div (2 * pk.d)
                 accepted == /\ LastOnset + Minioi < candidate
                             /\ ~(LastOnset > 0 /\ Delay > candidate)
             IN  /\ pk.n > 0 /\ pk.d > 0
                 /\ accepted => /\ onset' = pk
                                /\ LastOnset' = (IF Delay > candidate THEN Delay
                                                 ELSE candidate)
                 /\ ~accepted => /\ IsZero(onset')
                                 /\ LastOnset' = LastOnset]_vars

\* A peak accepted inside the start delay: LastOnset was raised to the delay.
C15_Witness ==
    /\ lastCall = <<"Do", FALSE>>
    /\ PeakReported
    /\ IsPositive(onset)
    /\ LastOnset = Delay
    /\ Delay > TotalFrames + 2

\* C16: a Do call on which the peak picker reports no peak force-emits an
\* onset (output Delay / HopSize, LastOnset = TotalFrames + Delay) exactly
\* when TotalFrames <= Delay, the hop is not silent and (TotalFrames == 0 or
\* LastOnset + Minioi < TotalFrames); otherwise the output is 0 and LastOnset
\* is unchanged.  A hop whose reported peak is discarded as silent or doubled
\* writes 0 and leaves LastOnset unchanged: it never takes the forced branch.
C16_ForcedStartOnset ==
    [][DoStep =>
          LET forced == /\ TotalFrames <= Delay
                        /\ lastCall'[2] = FALSE
                        /\ (TotalFrames = 0 \/ LastOnset + Minioi < TotalFrames)
          IN  /\ (~FvecPeakPick(OnsetPeek', 1) /\ forced)
                    => /\ onset' = Frac(Delay, HopSize)
                       /\ LastOnset' = TotalFrames + Delay
              /\ (~FvecPeakPick(OnsetPeek', 1) /\ ~forced)
                    => /\ IsZero(onset')
                       /\ LastOnset' = LastOnset
              /\ (FvecPeakPick(OnsetPeek', 1) /\ ~IsPositive(onset'))
                    => /\ IsZero(onset')
                       /\ LastOnset' = LastOnset]_vars

\* The forced onset on the last hop of the start window (TotalFrames was
\* equal to a positive Delay), after silent hops.
C16_Witness ==
    /\ lastCall = <<"Do", FALSE>>
    /\ ~PeakReported
    /\ Delay > 0
    /\ TotalFrames = Delay + HopSize
    /\ onset = Frac(Delay, HopSize)
    /\ LastOnset = 2 * Delay

\* C17 as stated: PeakPicker.Do sets the thresholded value to
\* smoothed[WinPost] - median - mean * Threshold with the median taken over
\* the smoothed copy of the novelty window and the mean over the raw window.
C17_MeanOfRawWindow ==
    [][(picker'.calls = picker.calls + 1)
          => picker'.Thresholded =
                 picker'.OnsetProc[WinPost + 1]
                 - FvecMedian(picker'.OnsetProc).val
                 - Round(Sum(picker'.OnsetKeep) * picker.Threshold,
                         Len(picker'.OnsetKeep) * 1000)]_vars

\* C18 as stated: SetFloor only affects later Reset calls: until the next
\* Reset every Do call leaves the peaks and the frame it would have left
\* without the SetFloor call.
C18_FloorOnlyAtReset ==
    whitening.last = "Do"
        => /\ whitening.PeakValues = whitening.withoutPeaks
           /\ whitening.Norm = whitening.withoutNorm

\* C18 amended: SetFloor takes effect on the next Do call as well as on the
\* next Reset.  SetFloor itself leaves the peaks alone; every Do call sets
\* peak[i] to max(magnitude[i], max(RDecay * peak[i], Floor)) with the floor
\* configured at that time and divides magnitude[i] by it when it is > 0;
\* Reset sets every tracked peak to the configured floor.
C18_FloorTakesEffectAtOnce ==
    [][/\ whitening'.last = "SetFloor" /\ whitening'.ops = whitening.ops + 1
            => whitening'.PeakValues = whitening.PeakValues
       /\ whitening'.last = "Reset" /\ whitening'.ops = whitening.ops + 1
            => \A i \in 1..2 : whitening'.PeakValues[i] = whitening.Floor
       /\ whitening'.last = "Do" /\ whitening'.ops = whitening.ops + 1
            => \A i \in 1..2 :
                  LET decayed == (2 * whitening.RDecay * whitening.PeakValues[i] + 1000)
                                     \div 2000
                      clamped == IF decayed > whitening.Floor THEN decayed
                                 ELSE whitening.Floor
                      magnitude == whitening'.input[i]
                      peak == IF magnitude > clamped THEN magnitude ELSE clamped
                  IN  /\ whitening'.PeakValues[i] = peak
                      /\ peak > 0 => whitening'.Norm[i] = Frac(magnitude, peak)]_vars

\* A Do call after SetFloor(1.0) and before any Reset, whose peaks are not
\* those the same calls give without the SetFloor.
C18_Witness ==
    /\ whitening.last = "Do"
    /\ whitening.Floor = 10000
    /\ whitening.resetFloor = 1
    /\ whitening.PeakValues # whitening.withoutPeaks
    /\ whitening.Norm # whitening.withoutNorm

\* C19 as stated: for an interior position whose three values give
\* left - 2 * center + right == 0, FvecQuadraticPeakPos does not divide by
\* zero: it returns a finite position, the integer position or a neighbour.
C19_QuadraticGuard ==
    LET x == pkIn.v
        pos == pkIn.pos
    IN  (/\ pkOut.op = "FvecQuadraticPeakPos"
         /\ 0 < pos /\ pos < Len(x) - 1
         /\ x[pos] - 2 * x[pos + 1] + x[pos + 2] = 0)
            => /\ ~pkOut.panic
               /\ pkOut.peak.d > 0
               /\ \E q \in {pos - 1, pos, pos + 1} : FracEq(pkOut.peak, Frac(q, 1))

\* C20 as stated: a detector constructed with an unrecognized mode string is
\* the detector constructed with "hfc": the HFC descriptor, the same presets
\* (threshold, delay, whitening, compression, minimum inter-onset interval),
\* and so the same result of a Do call on every input.
C20_UnrecognizedIsHFC ==
    (modeArg \in UnrecognizedModes /\ lastCall[1] = "NewOnset")
        => LET asHfc == OnsetOf(Mode.hfc, 8, HopSize, Samplerate)
               this == [asHfc EXCEPT !.Silence = Silence,
                                   !.Minioi = Minioi,
                                   !.Delay = Delay,
                                   !.ApplyCompression = ApplyCompression,
                                   !.LambdaCompression = LambdaCompression,
                                   !.ApplyAWhitening = ApplyAWhitening,
                                   !.PpThreshold = PpThreshold,
                                   !.OnsetType = OnsetType]
           IN  /\ OnsetType = "OnsetHFC"
               /\ PpThreshold = asHfc.PpThreshold
               /\ Delay = asHfc.Delay
               /\ ApplyAWhitening = asHfc.ApplyAWhitening
               /\ GetCompression = (IF asHfc.ApplyCompression
                                    THEN asHfc.LambdaCompression ELSE 0)
               /\ Minioi = asHfc.Minioi
               /\ \A input \in Inputs, thresholded \in ThresholdedVals :
                      DoOn(this, input, thresholded) = DoOn(asHfc, input, thresholded)

\* C21: after every Specdesc.Do of a history-using variant the stored history
\* is the frame just processed, in every bin: OldMag is its Norm (specdiff,
\* complex, kl, mkl, specflux), Theta1 is its Phas (complex, phase, wphase),
\* and Theta2 is the Theta1 the call found (complex), whatever the bin added.
C21_HistoryUnconditional ==
    desc.ops > 0 =>
        /\ desc.s.OnsetType \in {"OnsetSpecdiff", "OnsetComplex", "OnsetKL",
                                 "OnsetMKL", "OnsetSpecflux"}
              => \A j \in 1..desc.fftgrain.Length :
                     desc.s.OldMag[j] = desc.fftgrain.Norm[j]
        /\ desc.s.OnsetType \in {"OnsetComplex", "OnsetPhase", "OnsetWPhase"}
              => \A j \in 1..desc.fftgrain.Length :
                     desc.s.Theta1[j] = desc.fftgrain.Phas[j]
        /\ desc.s.OnsetType = "OnsetComplex"
              => \A j \in 1..desc.fftgrain.Length :
                     desc.s.Theta2[j] = desc.before.Theta1[j]

\* A complex-domain call in which a bin's distance was not above zero (the
\* call added less than one term per bin) and yet all three histories of the
\* descriptor moved.
C21_Witness ==
    /\ desc.ops > 1
    /\ desc.s.OnsetType = "OnsetComplex"
    /\ Len(desc.onset) < desc.fftgrain.Length
    /\ \E j \in 1..desc.fftgrain.Length :
          /\ desc.before.OldMag[j] = desc.fftgrain.Norm[j]
          /\ desc.fftgrain.Norm[j] > 0
          /\ 2 * desc.before.Theta1[j] - desc.before.Theta2[j] = desc.fftgrain.Phas[j]
          /\ desc.s.Theta1[j] # desc.before.Theta1[j]
          /\ desc.s.Theta2[j] # desc.before.Theta2[j]
\* C22: when Delay and Minioi are changed only before the first hop after
\* construction or Reset, every state has LastOnset == 0 or LastOnset >=
\* Delay; a peak reported on a non-silent hop is then never rejected by the
\* start-of-file test (LastOnset > 0 and Delay > candidate) of the peak
\* branch, and is accepted whenever LastOnset + Minioi < candidate.
C22_DelayFloor ==
    /\ [](LastOnset = 0 \/ LastOnset >= Delay)
    /\ [][(DoStep /\ lastCall'[2] = FALSE /\ FvecPeakPick(OnsetPeek', 1))
             => LET pk == FvecQuadraticPeakPos(OnsetPeek', 1)
                    candidate == TotalFrames + (2 * pk.n * HopSize + pk.d) \div (2 * pk.d)
                IN  /\ ~(/\ LastOnset + Minioi < candidate
                         /\ LastOnset > 0
                         /\ Delay > candidate)
                    /\ LastOnset + Minioi < candidate
                          => /\ onset' = pk
                             /\ LastOnset' = (IF Delay > candidate THEN Delay
                                              ELSE candidate)]_vars

\* The second onset since construction or Reset, a peak on a non-silent hop:
\* LastOnset was already above 0 (and at least the non-zero Delay) when the
\* peak was reported, and the peak was accepted beyond it.
C22_Witness ==
    /\ lastCall = <<"Do", FALSE>>
    /\ PeakReported
    /\ IsPositive(onset)
    /\ nOnsets = 2
    /\ Delay > 0
    /\ LastOnset > Delay + Minioi
====
